---- MODULE Spec2Model ----
(***************************************************************************)
(* A model of pyqs (src/pyqs): the query-string codec parse / stringify.   *)
(*                                                                         *)
(* Strings are sequences of code points (Python str), so that percent-     *)
(* encoding and decoding are computed, not assumed.  Python values are     *)
(* tagged records [t, v]:                                                  *)
(*    None   [t |-> "none", v |-> <<>>]                                    *)
(*    str    [t |-> "str",  v |-> <<code points>>]                         *)
(*    True   [t |-> "bool", v |-> <<1>>]   False  [t |-> "bool", v |-> <<0>>] *)
(*    int    [t |-> "int",  v |-> <<n>>]                                   *)
(*    list   [t |-> "list", v |-> <<values>>]                              *)
(*    dict   [t |-> "dict", v |-> <<[k |-> key, x |-> value], ...>>]       *)
(*           (entries in insertion order, as a Python dict keeps them)     *)
(*    ref    [t |-> "ref",  v |-> <<i>>]  the container object heap[i]     *)
(* Values built by parse are trees; the input of stringify lives in a heap *)
(* of container objects, because stringify looks at object identity.       *)
(***************************************************************************)
EXTENDS Integers, Sequences, FiniteSets, TLC

(***************************************************************************)
(* Characters (code points) and string literals.                           *)
(***************************************************************************)
\* The printable ASCII characters, from code point 32 (space) to 126 (~); the
\* double quote, the backslash and the backtick are written by name.
Ascii ==
  <<" ", "!", "DQUOTE", "#", "$", "%", "&", "'", "(", ")", "*", "+",
     ",", "-", ".", "/", "0", "1", "2", "3", "4", "5", "6", "7",
     "8", "9", ":", ";", "<", "=", ">", "?", "@", "A", "B", "C",
     "D", "E", "F", "G", "H", "I", "J", "K", "L", "M", "N", "O",
     "P", "Q", "R", "S", "T", "U", "V", "W", "X", "Y", "Z", "[",
     "BACKSLASH", "]", "^", "_", "BACKTICK", "a", "b", "c", "d", "e", "f", "g",
     "h", "i", "j", "k", "l", "m", "n", "o", "p", "q", "r", "s",
     "t", "u", "v", "w", "x", "y", "z", "{", "|", "}", "~">>

\* ord(c) of a printable ASCII character.
Ord(c) == 31 + CHOOSE i \in 1..Len(Ascii) : Ascii[i] = c

\* The Python string whose characters are the one-character strings of t.
S(t) == [i \in 1..Len(t) |-> Ord(t[i])]

LBRACK == 91
RBRACK == 93
EQUALS == 61
AMP == 38
COMMA == 44
PERCENT == 37
DOT == 46
QMARK == 63
PLUS == 43
SPACE == 32

(***************************************************************************)
(* Python str methods.                                                     *)
(***************************************************************************)
Slice(s, from, to) == SubSeq(s, from + 1, to)        \* s[from:to], 0-based
SliceFrom(s, from) == SubSeq(s, from + 1, Len(s))    \* s[from:]

StartsAt(s, sub, i) ==                               \* sub occurs at 0-based i
  /\ i + Len(sub) <= Len(s)
  /\ \A j \in 1..Len(sub) : s[i + j] = sub[j]

StartsWith(s, sub) == StartsAt(s, sub, 0)
EndsWith(s, sub) == Len(sub) <= Len(s) /\ StartsAt(s, sub, Len(s) - Len(sub))

\* str.find: the lowest 0-based index of sub in s, or -1.
Find(s, sub) ==
  LET hits == {i \in 0..Len(s) : StartsAt(s, sub, i)}
  IN IF hits = {} THEN -1 ELSE CHOOSE i \in hits : \A j \in hits : i <= j

Contains(s, sub) == Find(s, sub) # -1

\* str.replace(old, new), old non-empty: left to right, non-overlapping.
RECURSIVE Replace(_, _, _)
Replace(s, old, new) ==
  LET p == Find(s, old)
  IN IF p = -1 THEN s
     ELSE Slice(s, 0, p) \o new \o Replace(SliceFrom(s, p + Len(old)), old, new)

\* str.split(sep, maxsplit), sep non-empty; maxsplit < 0 means no limit.
RECURSIVE Split(_, _, _)
Split(s, sep, maxsplit) ==
  LET p == Find(s, sep)
  IN IF maxsplit = 0 \/ p = -1 THEN <<s>>
     ELSE <<Slice(s, 0, p)>> \o Split(SliceFrom(s, p + Len(sep)), sep, maxsplit - 1)

\* str.lstrip(chars) for a one-character set.
RECURSIVE LStrip(_, _)
LStrip(s, c) == IF s # <<>> /\ s[1] = c THEN LStrip(Tail(s), c) ELSE s

\* sep.join(parts)
RECURSIVE Join(_, _)
Join(parts, sep) ==
  IF parts = <<>> THEN <<>>
  ELSE IF Len(parts) = 1 THEN parts[1]
  ELSE parts[1] \o sep \o Join(Tail(parts), sep)

\* ''.join(parts), by halves.
RECURSIVE Concat(_)
Concat(parts) ==
  IF Len(parts) = 0 THEN <<>>
  ELSE IF Len(parts) = 1 THEN parts[1]
  ELSE Concat(SubSeq(parts, 1, Len(parts) \div 2))
         \o Concat(SubSeq(parts, Len(parts) \div 2 + 1, Len(parts)))

IsDigit(c) == 48 <= c /\ c <= 57

(***************************************************************************)
(* Python values.                                                          *)
(***************************************************************************)
None == [t |-> "none", v |-> <<>>]
Str(s) == [t |-> "str", v |-> s]
True == [t |-> "bool", v |-> <<1>>]
False == [t |-> "bool", v |-> <<0>>]
PyInt(n) == [t |-> "int", v |-> <<n>>]
List(xs) == [t |-> "list", v |-> xs]
Dict(es) == [t |-> "dict", v |-> es]
Ref(i) == [t |-> "ref", v |-> <<i>>]
EmptyDict == Dict(<<>>)

IsNone(x) == x.t = "none"
IsStr(x) == x.t = "str"
IsList(x) == x.t = "list"
IsDict(x) == x.t = "dict"
IsNumber(x) == x.t \in {"bool", "int"}                  \* bool is a subclass of int

\* key in d, d[key], d[key] = x (an existing key keeps its place), for a dict.
DHas(d, key) == \E i \in 1..Len(d.v) : d.v[i].k = key
DGet(d, key) == d.v[CHOOSE i \in 1..Len(d.v) : d.v[i].k = key].x
DSet(d, key, x) ==
  IF DHas(d, key)
  THEN Dict([i \in 1..Len(d.v) |-> IF d.v[i].k = key THEN [k |-> key, x |-> x] ELSE d.v[i]])
  ELSE Dict(Append(d.v, [k |-> key, x |-> x]))
DKeys(d) == [i \in 1..Len(d.v) |-> d.v[i].k]

\* Python ==: dicts compare as mappings, whatever the insertion order.
RECURSIVE PyEq(_, _)
PyEq(a, b) ==
  /\ a.t = b.t \/ (IsNumber(a) /\ IsNumber(b))
  /\ CASE a.t = "list" ->
            /\ Len(a.v) = Len(b.v)
            /\ \A i \in 1..Len(a.v) : PyEq(a.v[i], b.v[i])
       [] a.t = "dict" ->
            /\ Len(a.v) = Len(b.v)
            /\ \A i \in 1..Len(a.v) :
                 DHas(b, a.v[i].k) /\ PyEq(a.v[i].x, DGet(b, a.v[i].k))
       [] OTHER -> a.v = b.v

\* not x : None, '', [], {}, 0 and False are falsy.
Falsy(x) ==
  \/ x.t \in {"none", "str", "list", "dict"} /\ x.v = <<>>
  \/ IsNumber(x) /\ x.v = <<0>>

(***************************************************************************)
(* Codec primitives: utils.decode and utils.encode.                        *)
(***************************************************************************)
RECURSIVE BitAnd(_, _)
BitAnd(a, b) ==
  IF a = 0 \/ b = 0 THEN 0
  ELSE (IF a % 2 = 1 /\ b % 2 = 1 THEN 1 ELSE 0) + 2 * BitAnd(a \div 2, b \div 2)

RECURSIVE BitOr(_, _)
BitOr(a, b) ==
  IF a = 0 THEN b
  ELSE IF b = 0 THEN a
  ELSE (IF a % 2 = 1 \/ b % 2 = 1 THEN 1 ELSE 0) + 2 * BitOr(a \div 2, b \div 2)

RECURSIVE ShiftRight(_, _)
ShiftRight(a, n) == IF n = 0 THEN a ELSE ShiftRight(a \div 2, n - 1)

IsHexDigit(c) == IsDigit(c) \/ (65 <= c /\ c <= 70) \/ (97 <= c /\ c <= 102)
HexValue(c) == IF IsDigit(c) THEN c - 48 ELSE IF c <= 70 THEN c - 55 ELSE c - 87
HexDigit(n) == IF n < 10 THEN 48 + n ELSE 55 + n        \* upper case

\* HEX_TABLE[i] for 0 <= i < 256: '%XX'; the table has no other entry.
HexTableSize == 256
HEX_TABLE(i) == <<PERCENT, HexDigit(i \div 16), HexDigit(i % 16)>>

\* urllib.parse.unquote_to_bytes: every %XX with two hex digits becomes the
\* byte XX; a byte >= 0x80 is written -XX here until it is decoded.
IsEscape(s, i) ==
  s[i] = PERCENT /\ i + 2 <= Len(s) /\ IsHexDigit(s[i + 1]) /\ IsHexDigit(s[i + 2])

EscapedByte(s, i) == 16 * HexValue(s[i + 1]) + HexValue(s[i + 2])

UnquoteToBytes(s) ==
  Concat([i \in 1..Len(s) |->
            IF (i > 1 /\ IsEscape(s, i - 1)) \/ (i > 2 /\ IsEscape(s, i - 2)) THEN <<>>
            ELSE IF ~IsEscape(s, i) THEN <<s[i]>>
            ELSE IF EscapedByte(s, i) < 128 THEN <<EscapedByte(s, i)>>
            ELSE <<-EscapedByte(s, i)>>])

ReplacementChar == 65533

\* bytes.decode('utf-8', 'replace') over the raw bytes left by UnquoteToBytes:
\* a lead byte with all its continuation bytes gives its code point; a lead
\* byte cut short gives one U+FFFD for itself and the continuation bytes
\* that were valid; any other raw byte gives one U+FFFD.
IsRaw(s, i) == i <= Len(s) /\ s[i] < 0
IsCont(s, i, lo, hi) == IsRaw(s, i) /\ lo <= -s[i] /\ -s[i] <= hi

\* The number of continuation bytes the lead byte b asks for (0: no lead).
Utf8Need(b) ==
  IF b >= 194 /\ b <= 223 THEN 1
  ELSE IF b >= 224 /\ b <= 239 THEN 2
  ELSE IF b >= 240 /\ b <= 244 THEN 3 ELSE 0

\* The number of valid continuation bytes that follow the raw byte at j.
Utf8Got(s, j) ==
  LET b == -s[j]
      lo2 == IF b = 224 THEN 160 ELSE IF b = 240 THEN 144 ELSE 128
      hi2 == IF b = 237 THEN 159 ELSE IF b = 244 THEN 143 ELSE 191
  IN IF ~(Utf8Need(b) >= 1 /\ IsCont(s, j + 1, lo2, hi2)) THEN 0
     ELSE IF ~(Utf8Need(b) >= 2 /\ IsCont(s, j + 2, 128, 191)) THEN 1
     ELSE IF ~(Utf8Need(b) >= 3 /\ IsCont(s, j + 3, 128, 191)) THEN 2
     ELSE 3

Utf8CodePoint(s, j) ==
  LET b == -s[j]
  IN IF Utf8Need(b) = 1 THEN (b - 192) * 64 + (-s[j + 1] - 128)
     ELSE IF Utf8Need(b) = 2
     THEN (b - 224) * 4096 + (-s[j + 1] - 128) * 64 + (-s[j + 2] - 128)
     ELSE (b - 240) * 262144 + (-s[j + 1] - 128) * 4096
          + (-s[j + 2] - 128) * 64 + (-s[j + 3] - 128)

\* The raw byte at i is a continuation byte taken by the lead byte before it.
Utf8Taken(s, i) ==
  /\ IsCont(s, i, 128, 191)
  /\ \E j \in 1..(i - 1) :
       i - j <= 3 /\ s[j] < 0 /\ ~IsCont(s, j, 128, 191) /\ i - j <= Utf8Got(s, j)

Utf8Decode(s) ==
  Concat([i \in 1..Len(s) |->
            IF s[i] >= 0 THEN <<s[i]>>
            ELSE IF Utf8Taken(s, i) THEN <<>>
            ELSE IF Utf8Need(-s[i]) > 0 /\ Utf8Got(s, i) = Utf8Need(-s[i])
            THEN <<Utf8CodePoint(s, i)>>
            ELSE <<ReplacementChar>>])

\* urllib.parse.unquote(string): untouched without a '%'.
Unquote(s) == IF ~Contains(s, <<PERCENT>>) THEN s ELSE Utf8Decode(UnquoteToBytes(s))

\* utils.decode: both charsets end in the same unquote call.
decode(string, charset) ==
  LET string_without_plus == Replace(string, <<PLUS>>, <<SPACE>>)
  IN IF charset = "iso-8859-1" THEN Unquote(string_without_plus)
     ELSE Unquote(string_without_plus)

IsUnreserved(c) ==
  \/ c = 45 \/ c = 46 \/ c = 95 \/ c = 126
  \/ (48 <= c /\ c <= 57) \/ (65 <= c /\ c <= 90) \/ (97 <= c /\ c <= 122)

\* str.encode('utf-8') of one code point, as urllib.parse.quote does it;
\* <<>> stands for the UnicodeEncodeError of a lone surrogate.
Utf8Bytes(c) ==
  IF c < 128 THEN <<c>>
  ELSE IF c < 2048 THEN <<192 + (c \div 64), 128 + (c % 64)>>
  ELSE IF c >= 55296 /\ c <= 57343 THEN <<>>
  ELSE IF c < 65536 THEN <<224 + (c \div 4096), 128 + ((c \div 64) % 64), 128 + (c % 64)>>
  ELSE <<240 + (c \div 262144), 128 + ((c \div 4096) % 64),
         128 + ((c \div 64) % 64), 128 + (c % 64)>>

\* urllib.parse.quote(char, safe): [err, v].
Quote(c, safe) ==
  IF IsUnreserved(c) \/ c \in safe THEN [err |-> "none", v |-> <<c>>]
  ELSE IF Utf8Bytes(c) = <<>> THEN [err |-> "UnicodeEncodeError", v |-> None]
  ELSE [err |-> "none",
        v |-> LET bs == Utf8Bytes(c)
                  RECURSIVE hex(_)
                  hex(i) == IF i > Len(bs) THEN <<>> ELSE HEX_TABLE(bs[i]) \o hex(i + 1)
              IN hex(1)]

\* HEX_TABLE[i] as a list subscript: an index past the table is an IndexError.
HexLookup(i) ==
  IF i < HexTableSize THEN [err |-> "none", v |-> HEX_TABLE(i)]
  ELSE [err |-> "IndexError", v |-> None]

Cat2(a, b) ==
  IF a.err # "none" THEN a ELSE IF b.err # "none" THEN b
  ELSE [err |-> "none", v |-> a.v \o b.v]

\* The body of the character loop of utils.encode (charset utf-8).
EncodeChar(code_point, format) ==
  IF IsUnreserved(code_point)
     \/ (format = "RFC1738" /\ (code_point = 40 \/ code_point = 41))
  THEN [err |-> "none", v |-> <<code_point>>]
  ELSE IF code_point < 128 THEN HexLookup(code_point)
  ELSE IF code_point < 2048
  THEN Cat2(HexLookup(BitOr(192, ShiftRight(code_point, 6))),
            HexLookup(BitOr(128, BitAnd(code_point, 63))))
  ELSE IF code_point < 55296 \/ code_point >= 57344
  THEN Cat2(HexLookup(BitOr(224, ShiftRight(code_point, 12))),
       Cat2(HexLookup(BitOr(128, BitAnd(ShiftRight(code_point, 6), 63))),
            HexLookup(BitOr(128, BitAnd(code_point, 63)))))
  ELSE Quote(code_point, {47})

\* utils.encode on a str: [err, v], the exception being the one of the
\* first character that raises.  '' is returned as it is.
EncodeStr(string, charset, format) ==
  LET Char(i) == IF charset = "iso-8859-1" THEN Quote(string[i], {})
                 ELSE EncodeChar(string[i], format)
      bad == {i \in 1..Len(string) : Char(i).err # "none"}
  IN IF bad = {} THEN [err |-> "none", v |-> Concat([i \in 1..Len(string) |-> Char(i).v])]
     ELSE Char(CHOOSE i \in bad : \A j \in bad : i <= j)

\* formats.formatters
formatter(format, value) ==
  IF format = "RFC1738" THEN Replace(value, S(<<"%", "2", "0">>), <<PLUS>>) ELSE value

(***************************************************************************)
(* parse.py: options.                                                      *)
(***************************************************************************)
\* parse.defaults (decoder is always utils.decode here).
ParseDefaults ==
  [allow_dots |-> FALSE, allow_empty_arrays |-> FALSE, allow_prototypes |-> FALSE,
   allow_sparse |-> FALSE, array_limit |-> 20, charset |-> "utf-8",
   charset_sentinel |-> FALSE, comma |-> FALSE, decode_dot_in_keys |-> FALSE,
   delimiter |-> <<AMP>>, depth |-> 5, duplicates |-> "combine",
   ignore_query_prefix |-> FALSE, interpret_numeric_entities |-> FALSE,
   parameter_limit |-> 1000, parse_arrays |-> TRUE, plain_objects |-> FALSE,
   strict_depth |-> FALSE, strict_null_handling |-> FALSE,
   throw_on_limit_exceeded |-> FALSE]

\* normalize_parse_options on a record that gives every field: allow_dots
\* becomes a bool and depth a number, with False turned into 0 (a depth of 0
\* in an option record of the model stands for both); nothing else changes.
normalize_parse_options(opts) == [opts EXCEPT !.allow_dots = (opts.allow_dots = TRUE)]

\* dir(dict()): the names of the members of a built-in mapping.
DirDict ==
  {S(<<"_", "_", "c", "l", "a", "s", "s", "_", "_">>),
   S(<<"_", "_", "c", "l", "a", "s", "s", "_", "g", "e", "t", "i", "t", "e", "m", "_", "_">>),
   S(<<"_", "_", "c", "o", "n", "t", "a", "i", "n", "s", "_", "_">>),
   S(<<"_", "_", "d", "e", "l", "a", "t", "t", "r", "_", "_">>),
   S(<<"_", "_", "d", "e", "l", "i", "t", "e", "m", "_", "_">>),
   S(<<"_", "_", "d", "i", "r", "_", "_">>),
   S(<<"_", "_", "d", "o", "c", "_", "_">>),
   S(<<"_", "_", "e", "q", "_", "_">>),
   S(<<"_", "_", "f", "o", "r", "m", "a", "t", "_", "_">>),
   S(<<"_", "_", "g", "e", "_", "_">>),
   S(<<"_", "_", "g", "e", "t", "a", "t", "t", "r", "i", "b", "u", "t", "e", "_", "_">>),
   S(<<"_", "_", "g", "e", "t", "i", "t", "e", "m", "_", "_">>),
   S(<<"_", "_", "g", "e", "t", "s", "t", "a", "t", "e", "_", "_">>),
   S(<<"_", "_", "g", "t", "_", "_">>),
   S(<<"_", "_", "h", "a", "s", "h", "_", "_">>),
   S(<<"_", "_", "i", "n", "i", "t", "_", "_">>),
   S(<<"_", "_", "i", "n", "i", "t", "_", "s", "u", "b", "c", "l", "a", "s", "s", "_", "_">>),
   S(<<"_", "_", "i", "o", "r", "_", "_">>),
   S(<<"_", "_", "i", "t", "e", "r", "_", "_">>),
   S(<<"_", "_", "l", "e", "_", "_">>),
   S(<<"_", "_", "l", "e", "n", "_", "_">>),
   S(<<"_", "_", "l", "t", "_", "_">>),
   S(<<"_", "_", "n", "e", "_", "_">>),
   S(<<"_", "_", "n", "e", "w", "_", "_">>),
   S(<<"_", "_", "o", "r", "_", "_">>),
   S(<<"_", "_", "r", "e", "d", "u", "c", "e", "_", "_">>),
   S(<<"_", "_", "r", "e", "d", "u", "c", "e", "_", "e", "x", "_", "_">>),
   S(<<"_", "_", "r", "e", "p", "r", "_", "_">>),
   S(<<"_", "_", "r", "e", "v", "e", "r", "s", "e", "d", "_", "_">>),
   S(<<"_", "_", "r", "o", "r", "_", "_">>),
   S(<<"_", "_", "s", "e", "t", "a", "t", "t", "r", "_", "_">>),
   S(<<"_", "_", "s", "e", "t", "i", "t", "e", "m", "_", "_">>),
   S(<<"_", "_", "s", "i", "z", "e", "o", "f", "_", "_">>),
   S(<<"_", "_", "s", "t", "r", "_", "_">>),
   S(<<"_", "_", "s", "u", "b", "c", "l", "a", "s", "s", "h", "o", "o", "k", "_", "_">>),
   S(<<"c", "l", "e", "a", "r">>),
   S(<<"c", "o", "p", "y">>),
   S(<<"f", "r", "o", "m", "k", "e", "y", "s">>),
   S(<<"g", "e", "t">>),
   S(<<"i", "t", "e", "m", "s">>),
   S(<<"k", "e", "y", "s">>),
   S(<<"p", "o", "p">>),
   S(<<"p", "o", "p", "i", "t", "e", "m">>),
   S(<<"s", "e", "t", "d", "e", "f", "a", "u", "l", "t">>),
   S(<<"u", "p", "d", "a", "t", "e">>),
   S(<<"v", "a", "l", "u", "e", "s">>)}

ISO_SENTINEL ==
  S(<<"u", "t", "f", "8", "=", "%", "2", "6", "%", "2", "3", "1", "0", "0", "0", "3",
      "%", "3", "B">>)
CHARSET_SENTINEL == S(<<"u", "t", "f", "8", "=", "%", "E", "2", "%", "9", "C", "%", "9", "3">>)

Ok(val) == [err |-> "none", v |-> val]
Raise(e) == [err |-> e, v |-> None]

(***************************************************************************)
(* str(x) and repr(x) of the values above (strings of printable           *)
(* characters, which is what the model feeds it).                          *)
(***************************************************************************)
\* repr of a str: in double quotes when it holds ' and no ", in single
\* quotes otherwise; the quote and the backslash are escaped.
ReprEscape(s, quote) ==
  Concat([i \in 1..Len(s) |-> IF s[i] = quote \/ s[i] = 92 THEN <<92, s[i]>> ELSE <<s[i]>>])

ReprStr(s) ==
  LET quote == IF (\E i \in 1..Len(s) : s[i] = 39) /\ (\A i \in 1..Len(s) : s[i] # 34)
               THEN 34 ELSE 39
  IN <<quote>> \o ReprEscape(s, quote) \o <<quote>>

\* str(n) for an int n >= 0.
RECURSIVE IntToStr(_)
IntToStr(n) == IF n < 10 THEN <<48 + n>> ELSE IntToStr(n \div 10) \o <<48 + (n % 10)>>

RECURSIVE PyRepr(_)
PyRepr(x) ==
  CASE x.t = "none" -> S(<<"N", "o", "n", "e">>)
    [] x.t = "bool" -> IF x.v = <<1>> THEN S(<<"T", "r", "u", "e">>)
                       ELSE S(<<"F", "a", "l", "s", "e">>)
    [] x.t = "int" -> IntToStr(x.v[1])
    [] x.t = "str" -> ReprStr(x.v)
    [] x.t = "list" ->
         S(<<"[">>) \o Join([i \in 1..Len(x.v) |-> PyRepr(x.v[i])], S(<<",", " ">>))
           \o S(<<"]">>)
    [] x.t = "dict" ->
         S(<<"{">>)
           \o Join([i \in 1..Len(x.v) |->
                      ReprStr(x.v[i].k) \o S(<<":", " ">>) \o PyRepr(x.v[i].x)],
                   S(<<",", " ">>))
           \o S(<<"}">>)

PyStr(x) == IF x.t = "str" THEN x.v ELSE PyRepr(x)

\* int(s) for a run of ASCII digits.
RECURSIVE DigitsValue(_)
DigitsValue(s) ==
  IF s = <<>> THEN 0 ELSE 10 * DigitsValue(SubSeq(s, 1, Len(s) - 1)) + (s[Len(s)] - 48)

\* The longest prefix of s made of characters c with ok(c).
RECURSIVE Span(_, _)
Span(s, stop) ==
  IF s = <<>> \/ s[1] \in stop THEN <<>> ELSE <<s[1]>> \o Span(Tail(s), stop)

RECURSIVE DigitSpan(_)
DigitSpan(s) == IF s = <<>> \/ ~IsDigit(s[1]) THEN <<>> ELSE <<s[1]>> \o DigitSpan(Tail(s))

MaxCodePoint == 1114111

\* parse.interpret_numeric_entities: re.sub(r'&#(\d+);', chr(int(...))).
RECURSIVE interpret_numeric_entities(_)
interpret_numeric_entities(string) ==
  IF string = <<>> THEN Ok(<<>>)
  ELSE
    LET ds == IF StartsWith(string, S(<<"&", "#">>)) THEN DigitSpan(SliceFrom(string, 2))
              ELSE <<>>
        hit == ds # <<>> /\ Len(string) >= Len(ds) + 3 /\ string[Len(ds) + 3] = 59
    IN IF hit
       THEN IF DigitsValue(ds) > MaxCodePoint THEN Raise("ValueError")
            ELSE LET rest == interpret_numeric_entities(SliceFrom(string, Len(ds) + 3))
                 IN IF rest.err # "none" THEN rest
                    ELSE Ok(<<DigitsValue(ds)>> \o rest.v)
       ELSE LET rest == interpret_numeric_entities(Tail(string))
            IN IF rest.err # "none" THEN rest ELSE Ok(<<string[1]>> \o rest.v)

(***************************************************************************)
(* parse.parse_array_value                                                 *)
(***************************************************************************)
parse_array_value(val, options, current_array_length) ==
  IF val.t = "str" /\ val.v # <<>> /\ options.comma /\ Contains(val.v, <<COMMA>>)
  THEN Ok(List([i \in 1..Len(Split(val.v, <<COMMA>>, -1)) |->
                  Str(Split(val.v, <<COMMA>>, -1)[i])]))
  ELSE IF options.throw_on_limit_exceeded /\ current_array_length >= options.array_limit
  THEN Raise("ArrayLimitExceeded")
  ELSE Ok(val)

(***************************************************************************)
(* utils.combine                                                           *)
(***************************************************************************)
\* A combine that keeps the later value alone.
CombineReplaces(a, b) == IF IsList(b) THEN b ELSE List(<<b>>)

combine(a, b) ==
  IF IsList(a)
  THEN IF IsList(b) THEN List(a.v \o b.v) ELSE List(Append(a.v, b))
  ELSE IF IsList(b) THEN List(<<a>> \o b.v) ELSE List(<<a, b>>)

(***************************************************************************)
(* parse.parse_values                                                      *)
(***************************************************************************)
\* parts = clean_str.split(delimiter, limit + (1 if throw_on_limit_exceeded))
ParseParts(string, options) ==
  LET stripped == IF options.ignore_query_prefix THEN LStrip(string, QMARK) ELSE string
      clean_str == Replace(Replace(stripped, S(<<"%", "5", "B">>), <<LBRACK>>),
                           S(<<"%", "5", "D">>), <<RBRACK>>)
      limit == options.parameter_limit
  IN Split(clean_str, options.delimiter,
           limit + (IF options.throw_on_limit_exceeded THEN 1 ELSE 0))

\* The charset-sentinel scan: [skip_index (0-based, -1 for none), charset].
SentinelScan(parts, options) ==
  LET hits == {i \in 1..Len(parts) : StartsWith(parts[i], S(<<"u", "t", "f", "8", "=">>))}
      first == CHOOSE i \in hits : \A j \in hits : i <= j
  IN IF ~options.charset_sentinel \/ hits = {}
     THEN [skip_index |-> -1, charset |-> options.charset]
     ELSE [skip_index |-> first - 1,
           charset |-> IF parts[first] = CHARSET_SENTINEL THEN "utf-8"
                       ELSE IF parts[first] = ISO_SENTINEL THEN "iso-8859-1"
                       ELSE options.charset]

\* pos of the loop body: the index where the key of a part ends, -1 when the
\* part has no '='.
PartPos(part) ==
  LET bracket_equals_pos == Find(part, <<RBRACK, EQUALS>>)
  IN IF bracket_equals_pos # -1 THEN bracket_equals_pos + 1 ELSE Find(part, <<EQUALS>>)

\* current_length of the loop body.
CurrentLength(obj, key) ==
  IF DHas(obj, key) /\ IsList(DGet(obj, key)) THEN Len(DGet(obj, key).v) ELSE 0

\* val of the loop body up to the numeric entities: [err, v].
PartValue(part, pos, options, charset, current_length) ==
  LET Decoded(parsed_val) ==
        IF parsed_val.err # "none" THEN parsed_val
        ELSE IF IsList(parsed_val.v)
        THEN Ok(List([i \in 1..Len(parsed_val.v.v) |->
                        Str(decode(parsed_val.v.v[i].v, charset))]))
        ELSE Ok(Str(decode(parsed_val.v.v, charset)))
      Wrapped(r) == IF r.err # "none" THEN r ELSE Ok(Str(r.v))
      Entities(val) ==
        IF val.err = "none" /\ ~Falsy(val.v)
           /\ options.interpret_numeric_entities /\ charset = "iso-8859-1"
        THEN Wrapped(interpret_numeric_entities(PyStr(val.v)))
        ELSE val
  IN Entities(IF pos = -1
              THEN Ok(IF ~options.strict_null_handling THEN Str(<<>>) ELSE None)
              ELSE Decoded(parse_array_value(Str(SliceFrom(part, pos + 1)), options,
                                             current_length)))

\* The end of the loop body: the '[]=' wrapping and the duplicates policy.
StorePart(obj, part, key, parsed, options) ==
  LET Put(val) ==
        IF DHas(obj, key) /\ options.duplicates = "combine"
        THEN Ok(DSet(obj, key, combine(DGet(obj, key), val)))
        ELSE IF ~DHas(obj, key) \/ options.duplicates = "last" THEN Ok(DSet(obj, key, val))
        ELSE Ok(obj)
  IN IF parsed.err # "none" THEN parsed
     ELSE Put(IF Contains(part, <<LBRACK, RBRACK, EQUALS>>) /\ ~IsList(parsed.v)
              THEN List(<<parsed.v>>) ELSE parsed.v)

\* One pass of the loop 'for i, part in enumerate(parts)' on the result so
\* far: [err, v] with v the new obj.
ParsePart(obj, part, options, charset) ==
  LET WithKey(pos, key) ==
        StorePart(obj, part, key,
                  PartValue(part, pos, options, charset, CurrentLength(obj, key)),
                  options)
      At(pos) == WithKey(pos, decode(IF pos = -1 THEN part ELSE Slice(part, 0, pos),
                                     charset))
  IN At(PartPos(part))

RECURSIVE ParseLoop(_, _, _, _, _)
ParseLoop(obj, parts, i, options, scan) ==
  IF i > Len(parts) THEN Ok(obj)
  ELSE IF i - 1 = scan.skip_index THEN ParseLoop(obj, parts, i + 1, options, scan)
  ELSE LET Then(r) == IF r.err # "none" THEN r
                       ELSE ParseLoop(r.v, parts, i + 1, options, scan)
       IN Then(ParsePart(obj, parts[i], options, scan.charset))

parse_values(string, options) ==
  LET Loop(parts) ==
        IF options.throw_on_limit_exceeded /\ Len(parts) > options.parameter_limit
        THEN Raise("ParameterLimitExceeded")
        ELSE ParseLoop(EmptyDict, parts, 1, options, SentinelScan(parts, options))
  IN Loop(ParseParts(string, options))

(***************************************************************************)
(* parse.parse_object                                                      *)
(***************************************************************************)
ARRAY_MARKER == <<LBRACK, RBRACK>>                     \* the chain entry '[]'

\* str(int(s)) == s and int(s) >= 0: decimal digits without a leading zero.
IsCanonicalIndex(s) ==
  /\ s # <<>>
  /\ \A i \in 1..Len(s) : IsDigit(s[i])
  /\ (Len(s) > 1 => s[1] # 48)

\* One pass of the loop 'for i in range(len(chain) - 1, -1, -1)': the new leaf.
ObjectStep(root, leaf, options) ==
  IF root = ARRAY_MARKER /\ options.parse_arrays
  THEN IF options.allow_empty_arrays
          /\ (leaf = Str(<<>>) \/ (options.strict_null_handling /\ IsNone(leaf)))
       THEN List(<<>>)
       ELSE IF IsNone(leaf) THEN List(<<>>)
       ELSE IF IsList(leaf) THEN List(leaf.v)
       ELSE List(<<leaf>>)
  ELSE
    LET bracketed == StartsWith(root, <<LBRACK>>) /\ EndsWith(root, <<RBRACK>>)
        stripped == IF bracketed THEN Slice(root, 1, Len(root) - 1) ELSE root
        clean_root == IF options.decode_dot_in_keys
                      THEN Replace(stripped, S(<<"%", "2", "E">>), <<DOT>>)
                      ELSE stripped
        index == DigitsValue(clean_root)
    IN IF /\ IsCanonicalIndex(clean_root)
          /\ root # clean_root
          /\ options.parse_arrays
          /\ index <= options.array_limit
       THEN List([j \in 1..(index + 1) |-> IF j = index + 1 THEN leaf ELSE None])
       ELSE IF clean_root # S(<<"_", "_", "p", "r", "o", "t", "o", "_", "_">>)
               \/ options.allow_prototypes
       THEN Dict(<<[k |-> clean_root, x |-> leaf]>>)
       ELSE EmptyDict

RECURSIVE ObjectLoop(_, _, _, _)
ObjectLoop(chain, i, leaf, options) ==
  IF i = 0 THEN leaf
  ELSE ObjectLoop(chain, i - 1, ObjectStep(chain[i], leaf, options), options)

\* [err, v].  With a str input the values are never a dict, so the length
\* looked up under parent_key stays 0; looking up parent_key itself is
\* chain[-2], an IndexError on the one-entry chain ['[]'].
parse_object(chain, val, options, values_parsed) ==
  IF chain # <<>> /\ chain[Len(chain)] = ARRAY_MARKER /\ Len(chain) = 1
  THEN Raise("IndexError")
  ELSE LET current_array_length == 0
           leaf == IF values_parsed THEN Ok(val)
                   ELSE parse_array_value(val, options, current_array_length)
       IN IF leaf.err # "none" THEN leaf
          ELSE Ok(ObjectLoop(chain, Len(chain), leaf.v, options))

(***************************************************************************)
(* parse.parse_keys                                                        *)
(***************************************************************************)
\* re.sub(r'\.([^.[]+)', r'[\1]', key)
RECURSIVE DotsToBrackets(_)
DotsToBrackets(key) ==
  IF key = <<>> THEN <<>>
  ELSE LET run == IF key[1] = DOT THEN Span(Tail(key), {DOT, LBRACK}) ELSE <<>>
       IN IF run # <<>>
          THEN <<LBRACK>> \o run \o <<RBRACK>> \o DotsToBrackets(SliceFrom(key, Len(run) + 1))
          ELSE <<key[1]>> \o DotsToBrackets(Tail(key))

\* re.findall(r'\[([^\[\]]*)\]', key): the contents of the bracket groups.
RECURSIVE BracketParts(_)
BracketParts(key) ==
  IF key = <<>> THEN <<>>
  ELSE LET inner == Span(Tail(key), {LBRACK, RBRACK})
       IN IF key[1] = LBRACK /\ Len(key) >= Len(inner) + 2 /\ key[Len(inner) + 2] = RBRACK
          THEN <<inner>> \o BracketParts(SliceFrom(key, Len(inner) + 2))
          ELSE BracketParts(Tail(key))

\* The screening of member names left out.
ReservedNever(name, options) == FALSE

Reserved(name, options) ==
  ~options.plain_objects /\ name \in DirDict /\ ~options.allow_prototypes

\* The number of bracket parts the loop 'while i < len(bracket_parts) and
\* (depth == 0 or i < depth)' consumes when it meets no reserved name.
Consumed(bracket_parts, depth) ==
  IF depth = 0 \/ Len(bracket_parts) < depth THEN Len(bracket_parts) ELSE depth

parse_keys(given_key, val, options, values_parsed) ==
  IF given_key = <<>> THEN Ok(None)
  ELSE
    LET key == IF options.allow_dots THEN DotsToBrackets(given_key) ELSE given_key
        parent == Span(key, {LBRACK, RBRACK})
        depth == options.depth
        bracket_parts == BracketParts(key)
        n == Consumed(bracket_parts, depth)
        segment(j) == IF bracket_parts[j] = <<>> THEN ARRAY_MARKER ELSE bracket_parts[j]
        remaining == <<LBRACK>>
                       \o Join(SubSeq(bracket_parts, n + 1, Len(bracket_parts)),
                               <<RBRACK, LBRACK>>)
                       \o <<RBRACK>>
        keys == (IF parent # <<>> THEN <<parent>> ELSE <<>>)
                  \o [j \in 1..n |-> segment(j)]
                  \o (IF n < Len(bracket_parts) THEN <<remaining>> ELSE <<>>)
    IN IF parent # <<>> /\ Reserved(parent, options) THEN Ok(None)
       ELSE IF \E j \in 1..n : Reserved(bracket_parts[j], options) THEN Ok(None)
       ELSE IF n < Len(bracket_parts) /\ options.strict_depth THEN Raise("DepthExceeded")
       ELSE parse_object(keys, val, options, values_parsed)

(***************************************************************************)
(* utils.merge                                                             *)
(***************************************************************************)
\* merge in which the value of source wins for every key of two dicts.
MergeShallow(target, source, options) ==
  IF IsNone(source) THEN target
  ELSE IF ~IsDict(source) /\ ~IsList(source) THEN List(<<target, source>>)
  ELSE IF Falsy(target) \/ target.t # source.t THEN source
  ELSE IF IsList(target) THEN List(target.v \o source.v)
  ELSE Dict([i \in 1..Len(target.v) |->
               IF DHas(source, target.v[i].k)
               THEN [k |-> target.v[i].k, x |-> DGet(source, target.v[i].k)]
               ELSE target.v[i]]
            \o SelectSeq(source.v, LAMBDA e : ~DHas(target, e.k)))

RECURSIVE merge(_, _, _)
\* The loop 'for key, value in source.items()' from entry i on.
RECURSIVE MergeItems(_, _, _, _)
MergeItems(result, source, i, options) ==
  IF i > Len(source.v) THEN result
  ELSE LET key == source.v[i].k
           value == source.v[i].x
           old == DGet(result, key)
           new == IF DHas(result, key)
                     /\ ((IsDict(old) /\ IsDict(value)) \/ (IsList(old) /\ IsList(value)))
                  THEN merge(old, value, options)
                  ELSE value
       IN MergeItems(DSet(result, key, new), source, i + 1, options)

merge(target, source, options) ==
  IF IsNone(source) THEN target
  ELSE IF ~IsDict(source) /\ ~IsList(source)
  THEN IF IsList(target) THEN List(Append(target.v, source))
       ELSE IF IsDict(target)
       THEN IF options.plain_objects \/ options.allow_prototypes
               \/ ~(IsStr(source) /\ source.v \in DirDict)
            THEN DSet(target, PyStr(source), True)
            ELSE target
       ELSE List(<<target, source>>)
  ELSE IF Falsy(target) \/ target.t # source.t THEN source
  ELSE IF IsList(target) /\ IsList(source) THEN List(target.v \o source.v)
  ELSE MergeItems(target, source, 1, options)

\* What target holds when merge returns.  A source that is no container is
\* appended to a list target and set as a key of a dict target, in place;
\* for a source that is a container merge works on 'target.copy()', and
\* the recursive calls, whose source is a container too, on copies of the
\* values of the copy.
MergeTarget(target, source, options) ==
  IF ~IsNone(source) /\ ~IsDict(source) /\ ~IsList(source)
       /\ (IsList(target) \/ IsDict(target))
  THEN merge(target, source, options)
  ELSE target

(***************************************************************************)
(* utils.compact                                                           *)
(***************************************************************************)
\* s without its None elements.
RECURSIVE WithoutNone(_)
WithoutNone(s) ==
  IF s = <<>> THEN <<>>
  ELSE IF IsNone(s[1]) THEN WithoutNone(Tail(s)) ELSE <<s[1]>> \o WithoutNone(Tail(s))

\* The None-valued keys of a dict removed one call at a time.
CompactFirst(obj) ==
  IF IsDict(obj) /\ \E i \in 1..Len(obj.v) : IsNone(obj.v[i].x)
  THEN LET m == CHOOSE i \in 1..Len(obj.v) :
                  IsNone(obj.v[i].x) /\ \A j \in 1..(i - 1) : ~IsNone(obj.v[j].x)
       IN Dict([j \in 1..(Len(obj.v) - 1) |-> IF j < m THEN obj.v[j] ELSE obj.v[j + 1]])
  ELSE obj

\* The queue holds one item, the root, when 'for i in range(len(queue))'
\* fixes its range, so the loop body runs for the root alone: the items
\* appended for nested containers are never visited.
\* The loop body for the root item.  A dict loses its None-valued keys in
\* place; for a list the filtered copy is stored in the wrapper {'o': obj}
\* and obj itself, which is what compact returns, is not changed.
compact(obj) ==
  IF ~IsDict(obj) /\ ~IsList(obj) THEN obj
  ELSE IF IsDict(obj)
  THEN Dict(SelectSeq(obj.v, LAMBDA e : ~IsNone(e.x)))
  ELSE obj

(***************************************************************************)
(* parse.parse                                                             *)
(***************************************************************************)
\* The loop 'for key in obj' from entry i on: [err, v].
RECURSIVE KeysLoop(_, _, _, _)
KeysLoop(result, obj, i, options) ==
  IF i > Len(obj.v) THEN Ok(result)
  ELSE LET Merged(new_obj) ==
             IF new_obj.err # "none" THEN new_obj
             ELSE IF IsNone(new_obj.v) THEN KeysLoop(result, obj, i + 1, options)
             ELSE KeysLoop(merge(result, new_obj.v, options), obj, i + 1, options)
       IN Merged(parse_keys(obj.v[i].k, obj.v[i].x, options, TRUE))

\* parse(string, opts) for a str: [err |-> "none", v |-> result] when it
\* returns, [err |-> <the exception>, v |-> None] when it raises.
parse(string, opts) ==
  LET Finish(options, result) ==
        IF result.err # "none" \/ options.allow_sparse THEN result
        ELSE Ok(compact(result.v))
      Keys(options, obj) ==
        IF obj.err # "none" THEN obj
        ELSE Finish(options, KeysLoop(EmptyDict, obj.v, 1, options))
      Values(options) == Keys(options, parse_values(string, options))
  IN IF string = <<>> THEN Ok(EmptyDict)
     ELSE Values(normalize_parse_options(opts))

(***************************************************************************)
(* stringify.py.  The value to serialise lives in a heap: heap[i] is a     *)
(* list or dict object whose elements are scalars or Ref(j); id(obj) of a  *)
(* container is its index.                                                 *)
(***************************************************************************)
\* stringify.defaults (encoder is utils.encode; filter and sort are None).
StringifyDefaults ==
  [add_query_prefix |-> FALSE, allow_dots |-> FALSE, allow_empty_arrays |-> FALSE,
   array_format |-> "indices", charset |-> "utf-8", charset_sentinel |-> FALSE,
   comma_round_trip |-> FALSE, delimiter |-> <<AMP>>, encode |-> TRUE,
   encode_dot_in_keys |-> FALSE, encode_values_only |-> FALSE, filter |-> None,
   format |-> "RFC3986", skip_nulls |-> FALSE, sort |-> "None",
   strict_null_handling |-> FALSE]

\* normalize_stringify_options on a record that gives every field.
normalize_stringify_options(opts) == [opts EXCEPT !.allow_dots = (opts.allow_dots = TRUE)]

Deref(heap, obj) == IF obj.t = "ref" THEN heap[obj.v[1]] ELSE obj

\* The generators of 'indices' and 'brackets' taken one for the other.
ArrayPrefixSwapped(array_format, prefix, key) ==
  CASE array_format = "indices" -> prefix \o <<LBRACK, RBRACK>>
    [] array_format = "brackets" -> prefix \o <<LBRACK>> \o key \o <<RBRACK>>
    [] array_format = "repeat" -> prefix
    [] array_format = "comma" -> prefix

\* array_prefix_generators[array_format](prefix, key), 'comma' included.
array_prefix_generators(array_format, prefix, key) ==
  CASE array_format = "brackets" -> prefix \o <<LBRACK, RBRACK>>
    [] array_format = "indices" -> prefix \o <<LBRACK>> \o key \o <<RBRACK>>
    [] array_format = "repeat" -> prefix
    [] array_format = "comma" -> prefix

\* a < b for two str, as list.sort() compares them.
RECURSIVE StrLess(_, _)
StrLess(a, b) ==
  IF b = <<>> THEN FALSE
  ELSE IF a = <<>> THEN TRUE
  ELSE IF a[1] # b[1] THEN a[1] < b[1]
  ELSE StrLess(Tail(a), Tail(b))

\* keys.sort() on the keys of a dict (distinct str).
RECURSIVE SortKeys(_)
SortKeys(keys) ==
  IF keys = <<>> THEN <<>>
  ELSE LET m == CHOOSE i \in 1..Len(keys) : \A j \in 1..Len(keys) : ~StrLess(keys[j], keys[i])
       IN <<keys[m]>> \o SortKeys([j \in 1..(Len(keys) - 1) |->
                                     IF j < m THEN keys[j] ELSE keys[j + 1]])

\* str(x) of a value of the heap; a container that contains itself prints
\* as '[...]' or '{...}' (Python's repr guards against the recursion).
RECURSIVE HeapRepr(_, _, _)
HeapRepr(heap, x, open) ==
  IF x.t = "ref"
  THEN LET o == heap[x.v[1]]
           inner(y) == HeapRepr(heap, y, open \cup {x.v[1]})
       IN IF x.v[1] \in open
          THEN IF IsList(o) THEN S(<<"[", ".", ".", ".", "]">>)
               ELSE S(<<"{", ".", ".", ".", "}">>)
          ELSE IF IsList(o)
          THEN S(<<"[">>) \o Join([i \in 1..Len(o.v) |-> inner(o.v[i])], S(<<",", " ">>))
                 \o S(<<"]">>)
          ELSE S(<<"{">>)
                 \o Join([i \in 1..Len(o.v) |->
                            ReprStr(o.v[i].k) \o S(<<":", " ">>) \o inner(o.v[i].x)],
                         S(<<",", " ">>))
                 \o S(<<"}">>)
  ELSE PyRepr(x)

HeapStr(heap, x) == IF x.t = "str" THEN x.v ELSE HeapRepr(heap, x, {})

\* encoder(x, ...) with encoder = utils.encode, or no encoder: [err, v].
\* A falsy argument is returned as it is (v is its str(), which is what
\* the callers make of it); anything else is str()-ed first.
Encode(x, use_encoder, charset, format) ==
  IF ~use_encoder \/ Falsy(x) THEN Ok(PyStr(x))
  ELSE EncodeStr(PyStr(x), charset, format)

\* The 'comma' branch of stringify_value on the list o: with
\* encode_values_only the elements other than None go through the encoder
\* first (utils.encode indexes and ord()s its argument: a TypeError on a
\* non-empty container); then ','.join(str(x) for x in obj), or None for [].
\* utils.encode on a list or dict c (repr is its str()): an empty one is
\* returned as it is; iterating a list of one-character str encodes it like
\* the str of these characters; ord() of anything else, slicing a dict and
\* urllib's quote of a list are a TypeError.
EncodeContainer(c, repr, a) ==
  LET chars == IF IsList(c)
               THEN SelectSeq(c.v, LAMBDA e : IsStr(e) /\ Len(e.v) = 1)
               ELSE <<>>
      Checked(r) == IF r.err = "none" /\ Len(chars) < Len(c.v) THEN Raise("TypeError") ELSE r
  IN IF c.v = <<>> THEN Ok(repr)
     ELSE IF IsDict(c) \/ a.charset = "iso-8859-1" THEN Raise("TypeError")
     ELSE Checked(EncodeStr([j \in 1..Len(chars) |-> chars[j].v[1]], a.charset, a.format))

RECURSIVE CommaParts(_, _, _, _, _)
CommaParts(heap, o, i, use_encoder, a) ==
  IF i > Len(o.v) THEN Ok(<<>>)
  ELSE LET x == o.v[i]
           pre == a.encode_values_only /\ use_encoder /\ ~IsNone(x)
           Chain(part, rest) ==
             IF part.err # "none" THEN part
             ELSE IF rest.err # "none" THEN rest
             ELSE Ok(<<part.v>> \o rest.v)
       IN Chain(IF ~pre THEN Ok(HeapStr(heap, x))
                ELSE IF x.t = "ref" THEN EncodeContainer(heap[x.v[1]], HeapStr(heap, x), a)
                ELSE Encode(x, TRUE, a.charset, a.format),
                CommaParts(heap, o, i + 1, use_encoder, a))

CommaJoin(heap, o, use_encoder, a) ==
  LET Joined(parts) ==
        IF parts.err # "none" THEN parts
        ELSE IF o.v = <<>> THEN Ok(None)
        ELSE Ok(Str(Join(parts.v, <<COMMA>>)))
  IN Joined(CommaParts(heap, o, 1, use_encoder, a))

\* options['filter'] is a list (of str keys, held by the caller), and its
\* keys.  A sort function is modelled by the key function 'lambda k: k'.
IsFilterList(a) == a.filter.t = "ref"
FilterKeys(heap, a) ==
  IF IsFilterList(a) THEN [j \in 1..Len(heap[a.filter.v[1]].v) |-> heap[a.filter.v[1]].v[j].v]
  ELSE <<>>

\* The id of a child left in the side channel of its parent.
AfterChildKeeps(side_channel, value) ==
  IF value.t = "ref" THEN side_channel \cup {value.v[1]} ELSE side_channel

\* The side channel a caller holds when the call for value returns.  A call
\* changes the dict it is given only between 'side_channel[obj_id] = True'
\* and 'del side_channel[obj_id]', and hands its children a copy of it.
AfterChild(side_channel, value) == side_channel

\* a is the record of the options, which stringify_value passes down
\* unchanged; use_encoder says whether an encoder is passed.
RECURSIVE stringify_value(_, _, _, _, _, _)
\* The loop 'for key in obj_keys' of stringify_value from entry i on.
RECURSIVE ValueLoop(_, _, _, _, _, _, _, _)
ValueLoop(heap, obj, obj_keys, i, adjusted_prefix, use_encoder, a, side_channel) ==
  IF i > Len(obj_keys) THEN Ok(<<>>)
  ELSE
    LET o == Deref(heap, obj)
        key == obj_keys[i]
        is_comma == a.array_format = "comma" /\ IsList(o)
        filtered == IsFilterList(a) /\ ~is_comma
        key_str == IF IsDict(o) \/ filtered THEN key
                   ELSE IF is_comma THEN <<>> ELSE IntToStr(key)
        encoded_key == IF a.allow_dots /\ a.encode_dot_in_keys
                       THEN Replace(key_str, <<DOT>>, S(<<"%", "2", "E">>))
                       ELSE key_str
        key_prefix == IF IsList(o)
                      THEN array_prefix_generators(a.array_format, adjusted_prefix,
                                                   encoded_key)
                      ELSE adjusted_prefix
                             \o (IF a.allow_dots THEN <<DOT>> \o encoded_key
                                 ELSE <<LBRACK>> \o encoded_key \o <<RBRACK>>)
        Chain(stringified, rest) ==
          IF stringified.err # "none" THEN stringified
          ELSE IF rest.err # "none" THEN rest
          ELSE Ok(stringified.v \o rest.v)
        Item(value) ==
          IF a.skip_nulls /\ IsNone(value)
          THEN ValueLoop(heap, obj, obj_keys, i + 1, adjusted_prefix, use_encoder, a,
                         side_channel)
          ELSE Chain(stringify_value(heap, value, key_prefix,
                                     IF is_comma /\ a.encode_values_only THEN FALSE
                                     ELSE use_encoder,
                                     a, side_channel),
                     ValueLoop(heap, obj, obj_keys, i + 1, adjusted_prefix, use_encoder, a,
                               AfterChild(side_channel, value)))
        Comma(joined) == IF joined.err # "none" THEN joined ELSE Item(joined.v)
    IN IF is_comma THEN Comma(CommaJoin(heap, o, use_encoder, a))
       ELSE IF IsDict(o) THEN IF DHas(o, key) THEN Item(DGet(o, key)) ELSE Raise("KeyError")
       ELSE IF filtered THEN Item(None)
       ELSE Item(o.v[key + 1])

\* [err, v]: v is the list of tokens.  side_channel is the set of ids the
\* caller handed down; the children get a copy that holds id(obj) too.
stringify_value(heap, obj, prefix, use_encoder, a, side_channel) ==
  LET o == Deref(heap, obj)
      encoded_prefix == IF a.encode_dot_in_keys
                        THEN Replace(prefix, <<DOT>>, S(<<"%", "2", "E">>))
                        ELSE prefix
      adjusted_prefix == IF a.comma_round_trip /\ IsList(o) /\ Len(o.v) = 1
                         THEN encoded_prefix \o <<LBRACK, RBRACK>>
                         ELSE encoded_prefix
      obj_keys == IF a.array_format = "comma" /\ IsList(o) THEN <<0>>
                  ELSE IF IsFilterList(a) THEN FilterKeys(heap, a)
                  ELSE IF IsDict(o) THEN SortKeys(DKeys(o))
                  ELSE [j \in 1..Len(o.v) |-> j - 1]
      KeyOnly(key) == IF key.err # "none" THEN key
                      ELSE Ok(<<formatter(a.format, key.v)>>)
      KeyValue(key, value) ==
        IF key.err # "none" THEN key
        ELSE IF value.err # "none" THEN value
        ELSE Ok(<<formatter(a.format, key.v) \o <<EQUALS>> \o formatter(a.format, value.v)>>)
      \* The encoder returns 0 and False as they are, and the formatter of
      \* RFC1738 calls value.replace on what it is given.
      Leaf(key) ==
        IF IsNone(o) /\ a.strict_null_handling THEN KeyOnly(key)
        ELSE IF use_encoder /\ IsNumber(o) /\ Falsy(o) /\ a.format = "RFC1738"
        THEN IF key.err # "none" THEN key ELSE Raise("AttributeError")
        ELSE KeyValue(key, Encode(IF IsNone(o) THEN Str(<<>>) ELSE o, use_encoder,
                                  a.charset, a.format))
  IN IF obj.t = "ref" /\ obj.v[1] \in side_channel THEN Raise("CyclicValue")
     ELSE IF ~IsDict(o) /\ ~IsList(o)
     THEN Leaf(IF use_encoder /\ ~a.encode_values_only
               THEN Encode(Str(prefix), TRUE, a.charset, a.format)
               ELSE Ok(prefix))
     ELSE IF a.allow_empty_arrays /\ IsList(o) /\ Len(o.v) = 0
     THEN Ok(<<adjusted_prefix \o <<LBRACK, RBRACK>>>>)
     ELSE ValueLoop(heap, obj, obj_keys, 1, adjusted_prefix, use_encoder, a,
                    side_channel \cup {obj.v[1]})

\* The keys stringify walks: the filter list itself when it is a list that
\* is not empty, a new list of the keys of obj otherwise; sorted in place
\* when a sort function is given.
RootKeys(heap, o, options) ==
  LET obj_keys == IF FilterKeys(heap, options) # <<>> THEN FilterKeys(heap, options)
                  ELSE IF IsDict(o) THEN DKeys(o)
                  ELSE [j \in 1..Len(o.v) |-> j - 1]
  IN IF options.sort = "None" \/ (IsList(o) /\ FilterKeys(heap, options) = <<>>)
     THEN obj_keys
     ELSE SortKeys(obj_keys)

\* The heap when stringify(obj, opts) returns or raises: 'obj_keys =
\* filter_func' makes obj_keys the caller's list, which
\* 'obj_keys.sort(key=options['sort'])' then sorts in place.
StringifyHeap(heap, obj, opts) ==
  LET o == Deref(heap, obj)
  IN IF (IsDict(o) \/ IsList(o)) /\ FilterKeys(heap, opts) # <<>> /\ opts.sort # "None"
     THEN [heap EXCEPT ![opts.filter.v[1]] =
             List([j \in 1..Len(FilterKeys(heap, opts)) |->
                     Str(SortKeys(FilterKeys(heap, opts))[j])])]
     ELSE heap

\* The loop 'for key in obj_keys' of stringify from entry i on.
RECURSIVE RootLoop(_, _, _, _, _, _)
RootLoop(heap, obj, obj_keys, i, a, side_channel) ==
  IF i > Len(obj_keys) THEN Ok(<<>>)
  ELSE
    LET o == Deref(heap, obj)
        key == obj_keys[i]
        Chain(stringified, rest) ==
          IF stringified.err # "none" THEN stringified
          ELSE IF rest.err # "none" THEN rest
          ELSE Ok(stringified.v \o rest.v)
        filtered == FilterKeys(heap, a) # <<>>
        Item(value) ==
          IF a.skip_nulls /\ IsNone(value)
          THEN RootLoop(heap, obj, obj_keys, i + 1, a, side_channel)
          ELSE Chain(stringify_value(heap, value,
                                     IF IsDict(o) \/ filtered THEN key ELSE IntToStr(key),
                                     a.encode, a, side_channel),
                     RootLoop(heap, obj, obj_keys, i + 1, a, AfterChild(side_channel, value)))
    IN IF IsDict(o) THEN IF DHas(o, key) THEN Item(DGet(o, key)) ELSE Raise("KeyError")
       ELSE IF filtered THEN Item(None)
       ELSE Item(o.v[key + 1])

\* stringify(obj, opts): [err |-> "none", v |-> the query string] when it
\* returns, [err |-> <the exception>, v |-> None] when it raises.
stringify(heap, obj, opts) ==
  LET o == Deref(heap, obj)
      obj_keys == RootKeys(heap, o, opts)
      Prefix(options) ==
        (IF options.add_query_prefix THEN <<QMARK>> ELSE <<>>)
          \o (IF ~options.charset_sentinel THEN <<>>
              ELSE IF options.charset = "iso-8859-1" THEN ISO_SENTINEL \o <<AMP>>
              ELSE CHARSET_SENTINEL \o <<AMP>>)
      Result(options, joined) ==
        Ok(IF joined # <<>> THEN Prefix(options) \o joined ELSE <<>>)
      Joined(options, keys) ==
        IF keys.err # "none" THEN keys
        ELSE Result(options, Join(keys.v, options.delimiter))
      Keys(options) ==
        Joined(options,
               RootLoop(StringifyHeap(heap, obj, opts), obj, obj_keys, 1,
                        [options EXCEPT !.comma_round_trip =
                           options.array_format = "comma" /\ options.comma_round_trip],
                        {}))
  IN IF ~IsDict(o) /\ ~IsList(o) THEN Ok(<<>>)
     ELSE Keys(normalize_stringify_options(opts))

(***************************************************************************)
(* The callers.  A caller of parse holds a query string and an option      *)
(* record; a caller of stringify holds a value (heap, root heap[1]) and an *)
(* option record, and may parse the string it gets back.                   *)
(***************************************************************************)
VARIABLES
  pc,       \* "stringify", "parse" or "done": the call the caller makes next
  heap,     \* the container objects of the value given to stringify
  sopts,    \* the options given to stringify
  sret,     \* what stringify returned or raised
  query,    \* the string given to parse
  popts,    \* the options given to parse
  pret,     \* what parse returned or raised
  tree,     \* the value a caller of utils.compact or utils.encode holds,
            \* the target a caller of utils.merge holds
  source,   \* the source a caller of utils.merge holds
  uret      \* what utils.merge, utils.encode or utils.decode returned or raised

vars == <<pc, heap, sopts, sret, query, popts, pret, tree, source, uret>>

NotCalled == [err |-> "not called", v |-> None]

\* The caller calls stringify on heap[1]; a returned string is what it
\* parses next (with popts).
StringifyCall ==
  /\ pc = "stringify"
  /\ sret' = stringify(heap, Ref(1), sopts)
  /\ pc' = IF sret'.err = "none" THEN "parse" ELSE "done"
  /\ query' = IF sret'.err = "none" THEN sret'.v ELSE query
  /\ heap' = StringifyHeap(heap, Ref(1), sopts)
  /\ UNCHANGED <<sopts, popts, pret, tree, source, uret>>

\* The caller calls parse(query, popts).
ParseCall ==
  /\ pc = "parse"
  /\ pret' = parse(query, popts)
  /\ pc' = "done"
  /\ UNCHANGED <<heap, sopts, sret, query, popts, tree, source, uret>>

\* The caller calls utils.compact(tree), twice in a row.  compact changes
\* the value it is given in place and returns it.
CompactCall ==
  /\ pc \in {"compact", "compact again"}
  /\ tree' = compact(tree)
  /\ pc' = IF pc = "compact" THEN "compact again" ELSE "done"
  /\ UNCHANGED <<heap, sopts, sret, query, popts, pret, source, uret>>

\* The caller calls utils.merge(tree, source) without options.
MergeCall ==
  /\ pc = "merge"
  /\ uret' = Ok(merge(tree, source, ParseDefaults))
  /\ tree' = MergeTarget(tree, source, ParseDefaults)
  /\ pc' = "done"
  /\ UNCHANGED <<heap, sopts, sret, query, popts, pret, source>>

\* The caller calls utils.encode(tree, None, charset, None, format) with
\* the charset and format of sopts; a returned string is what it decodes
\* next.
EncodeCall ==
  /\ pc = "encode"
  /\ uret' = LET encoded == EncodeStr(tree.v, sopts.charset, sopts.format)
             IN IF encoded.err = "none" THEN Ok(Str(encoded.v)) ELSE encoded
  /\ pc' = IF uret'.err = "none" THEN "decode" ELSE "done"
  /\ UNCHANGED <<heap, sopts, sret, query, popts, pret, tree, source>>

\* The caller calls utils.decode on the string utils.encode returned.
DecodeCall ==
  /\ pc = "decode"
  /\ uret' = Ok(Str(decode(uret.v.v, sopts.charset)))
  /\ pc' = "done"
  /\ UNCHANGED <<heap, sopts, sret, query, popts, pret, tree, source>>

Next == ParseCall

NextStringify == StringifyCall \/ ParseCall

NextCompact == CompactCall

NextMerge == MergeCall

NextEncode == EncodeCall \/ DecodeCall

(***************************************************************************)
(* Callers and the values they hold.                                       *)
(***************************************************************************)
\* A caller of parse alone.
ParseCaller(queries, options) ==
  /\ pc = "parse"
  /\ heap = <<>>
  /\ sopts = StringifyDefaults
  /\ sret = NotCalled
  /\ query \in queries
  /\ popts \in options
  /\ pret = NotCalled
  /\ tree = None
  /\ source = None
  /\ uret = NotCalled

\* A caller of stringify, who parses the string it gets back with the
\* default options.
StringifyCaller(heaps, options) ==
  /\ pc = "stringify"
  /\ heap \in heaps
  /\ sopts \in options
  /\ sret = NotCalled
  /\ query = <<>>
  /\ popts = ParseDefaults
  /\ pret = NotCalled
  /\ tree = None
  /\ source = None
  /\ uret = NotCalled

\* A caller of utils.compact.
CompactCaller(trees) ==
  /\ pc = "compact"
  /\ heap = <<>>
  /\ sopts = StringifyDefaults
  /\ sret = NotCalled
  /\ query = <<>>
  /\ popts = ParseDefaults
  /\ pret = NotCalled
  /\ tree \in trees
  /\ source = None
  /\ uret = NotCalled

\* A caller of utils.encode, who decodes the string it gets back.
EncodeCaller(strings, options) ==
  /\ pc = "encode"
  /\ heap = <<>>
  /\ sopts \in options
  /\ sret = NotCalled
  /\ query = <<>>
  /\ popts = ParseDefaults
  /\ pret = NotCalled
  /\ tree \in {Str(s) : s \in strings}
  /\ source = None
  /\ uret = NotCalled

\* A caller of utils.merge.
MergeCaller(targets, sources) ==
  /\ pc = "merge"
  /\ heap = <<>>
  /\ sopts = StringifyDefaults
  /\ sret = NotCalled
  /\ query = <<>>
  /\ popts = ParseDefaults
  /\ pret = NotCalled
  /\ tree \in targets
  /\ source \in sources
  /\ uret = NotCalled

\* The sequences of 1 to n elements of a set.
SeqsUpTo(set, n) == UNION {[1..m -> set] : m \in 1..n}

\* The query strings made of 1 to n tokens of a set.
QueriesOf(tokens, n) == {Join(ts, <<AMP>>) : ts \in SeqsUpTo(tokens, n)}

\* A path into a result: the value under the keys of path, Missing when a
\* key is absent or the value on the way is no dict.
Missing == [t |-> "missing", v |-> <<>>]

RECURSIVE At(_, _)
At(x, path) ==
  IF path = <<>> THEN x
  ELSE IF ~IsDict(x) \/ ~DHas(x, path[1]) THEN Missing
  ELSE At(DGet(x, path[1]), Tail(path))

(***************************************************************************)
(* Spec: parse on every string of at most MaxLen characters over Alphabet, *)
(* under five option records.                                              *)
(***************************************************************************)
MaxLen == 5
Alphabet == {Ord("a"), LBRACK, RBRACK, EQUALS, AMP}
Strings == UNION {[1..n -> Alphabet] : n \in 0..MaxLen}

Profiles ==
  {ParseDefaults,
   [ParseDefaults EXCEPT !.parse_arrays = FALSE],
   [ParseDefaults EXCEPT !.strict_null_handling = TRUE],
   [ParseDefaults EXCEPT !.depth = 1],
   [ParseDefaults EXCEPT !.allow_sparse = TRUE]}

Init == ParseCaller(Strings, Profiles)

Spec == Init /\ [][Next]_vars

\* C2: whatever the input string and the options, the value parse returns
\* is a dict at the root, also for keys that start with a bracket group.
C2_RootIsMapping == (pc = "done" /\ pret.err = "none") => IsDict(pret.v)

\* C10: with strict_depth and throw_on_limit_exceeded unset, parse returns
\* a result for every input string and never raises.
C10_ParseNeverRaises ==
  (pc = "done" /\ ~popts.strict_depth /\ ~popts.throw_on_limit_exceeded)
    => pret.err = "none"

(***************************************************************************)
(* SpecDup: parse on 1 to MaxTokens tokens key=value, the keys and values  *)
(* from small sets, under each of the three duplicates policies.           *)
(***************************************************************************)
MaxTokens == 3
DupKeys == {S(<<"a">>), S(<<"b">>), S(<<"c", "[", "d", "]">>)}
DupValues == {S(<<"1">>), S(<<"2">>), <<>>}
DupTokens == {k \o <<EQUALS>> \o v : k \in DupKeys, v \in DupValues}
Policies == {[ParseDefaults EXCEPT !.duplicates = d] : d \in {"combine", "first", "last"}}

InitDup == ParseCaller(QueriesOf(DupTokens, MaxTokens), Policies)

SpecDup == InitDup /\ [][Next]_vars

\* The values, in input order, of the tokens of a query whose raw key is k.
ValuesOf(string, k) ==
  LET mine == SelectSeq(Split(string, <<AMP>>, -1),
                        LAMBDA part : StartsWith(part, k \o <<EQUALS>>))
  IN [i \in 1..Len(mine) |-> Str(SliceFrom(mine[i], Len(k) + 1))]

\* Where the value of a raw key lands in the result.
KeyPath(k) == IF k = S(<<"c", "[", "d", "]">>) THEN <<S(<<"c">>), S(<<"d">>)>> ELSE <<k>>

\* C3: a raw key that occurs n >= 2 times with the scalar values v1..vn is
\* mapped to [v1, ..., vn] under 'combine', to v1 under 'first' and to vn
\* under 'last'; a key that occurs once is mapped to its value under every
\* policy.
C3_DuplicatePolicy ==
  pc = "done" =>
    /\ pret.err = "none"
    /\ \A k \in DupKeys :
         LET vs == ValuesOf(query, k)
             got == At(pret.v, KeyPath(k))
         IN CASE Len(vs) = 0 -> got = Missing
              [] Len(vs) = 1 -> PyEq(got, vs[1])
              [] popts.duplicates = "combine" -> PyEq(got, List(vs))
              [] popts.duplicates = "first" -> PyEq(got, vs[1])
              [] popts.duplicates = "last" -> PyEq(got, vs[Len(vs)])

\* A key given three times with the values 1, 2 and '' under 'last', next
\* to no other key: the result maps it to ''.
C3_Witness ==
  /\ pc = "done"
  /\ popts.duplicates = "last"
  /\ ValuesOf(query, S(<<"a">>)) = <<Str(S(<<"1">>)), Str(S(<<"2">>)), Str(<<>>)>>
  /\ PyEq(pret.v, Dict(<<[k |-> S(<<"a">>), x |-> Str(<<>>)]>>))

(***************************************************************************)
(* SpecDepth: parse on one token a[g1]...[gn]=v with at most MaxGroups     *)
(* bracket groups, under depth 0 (unlimited), 1 and 2, with and without    *)
(* strict_depth and allow_sparse.                                          *)
(***************************************************************************)
MaxGroups == 3
DepthGroups == {S(<<"b">>), S(<<"c">>), S(<<"0">>), S(<<"2">>), <<>>}
Leading == S(<<"a">>)
Payload == S(<<"v">>)

RECURSIVE Bracketed(_)
Bracketed(groups) ==
  IF groups = <<>> THEN <<>>
  ELSE <<LBRACK>> \o groups[1] \o <<RBRACK>> \o Bracketed(Tail(groups))

DepthQueries ==
  {Leading \o Bracketed(gs) \o <<EQUALS>> \o Payload :
     gs \in UNION {[1..n -> DepthGroups] : n \in 0..MaxGroups}}

DepthOptions ==
  {[ParseDefaults EXCEPT !.depth = d, !.strict_depth = s, !.allow_sparse = a] :
     d \in {0, 1, 2}, s \in BOOLEAN, a \in BOOLEAN}

InitDepth == ParseCaller(DepthQueries, DepthOptions)

SpecDepth == InitDepth /\ [][Next]_vars

\* The number of bracket groups of the key of a one-token query.
GroupCount(string) == Len(SelectSeq(string, LAMBDA c : c = LBRACK))

\* x is k nested levels (containers with one element each) over a dict
\* with one single entry, which holds the payload.
RECURSIVE Collapsed(_, _)
Collapsed(x, k) ==
  IF k = 0 THEN IsDict(x) /\ Len(x.v) = 1 /\ PyEq(x.v[1].x, Str(Payload))
  ELSE \/ IsDict(x) /\ Len(x.v) = 1 /\ Collapsed(x.v[1].x, k - 1)
       \/ IsList(x) /\ Len(x.v) = 1 /\ Collapsed(x.v[1], k - 1)

\* C6: a key with more bracket groups than a positive depth d gives, with
\* strict_depth unset, d nested levels under the leading name and then one
\* single literal-named entry that holds the value, and with strict_depth
\* set the depth error; a key with at most d groups, or depth 0, gives no
\* depth error.
C6_DepthLimit ==
  pc = "done" =>
    IF popts.depth > 0 /\ GroupCount(query) > popts.depth
    THEN IF popts.strict_depth THEN pret.err = "DepthExceeded"
         ELSE /\ pret.err = "none"
              /\ IsDict(pret.v) /\ DKeys(pret.v) = <<Leading>>
              /\ Collapsed(DGet(pret.v, Leading), popts.depth)
    ELSE pret.err # "DepthExceeded"

\* x holds a list with a None element, at any nesting depth.
RECURSIVE HasHole(_)
HasHole(x) ==
  \/ IsList(x) /\ \E i \in 1..Len(x.v) : IsNone(x.v[i]) \/ HasHole(x.v[i])
  \/ IsDict(x) /\ \E i \in 1..Len(x.v) : HasHole(x.v[i].x)

\* C7: when allow_sparse is not set, no list at any depth of the value
\* parse returns holds a None hole.
C7_NoHoles == (pc = "done" /\ pret.err = "none" /\ ~popts.allow_sparse) => ~HasHole(pret.v)

(***************************************************************************)
(* SpecLimit: parse on 1 to MaxParams tokens under small and large         *)
(* parameter_limit and array_limit, with and without                       *)
(* throw_on_limit_exceeded and comma.                                      *)
(***************************************************************************)
MaxParams == 3
LimitTokens ==
  {S(<<"a", "=", "1">>), S(<<"a", "=", "2">>), S(<<"b", "=", "1">>),
   S(<<"a", "[", "]", "=", "1">>), S(<<"a", "=", "1", ",", "2">>)}

LimitOptions ==
  {[ParseDefaults EXCEPT !.parameter_limit = p, !.array_limit = l,
                         !.throw_on_limit_exceeded = t, !.comma = c] :
     p \in {1, 2, 1000}, l \in {0, 1, 20}, t \in BOOLEAN, c \in BOOLEAN}

InitLimit == ParseCaller(QueriesOf(LimitTokens, MaxParams), LimitOptions)

SpecLimit == InitLimit /\ [][Next]_vars

\* The tokens of a query, and the query made of its first n tokens.
TokensOf(string) == Split(string, <<AMP>>, -1)
FirstTokens(string, n) ==
  Join(SubSeq(TokensOf(string), 1, IF n < Len(TokensOf(string)) THEN n
                                   ELSE Len(TokensOf(string))),
       <<AMP>>)

\* Two outcomes of parse are the same: the same exception, or equal values.
SameOutcome(r1, r2) == r1.err = r2.err /\ (r1.err = "none" => PyEq(r1.v, r2.v))

\* C8: with throw_on_limit_exceeded unset the result is the one of the
\* first parameter_limit tokens alone (the tokens after them contribute
\* nothing); with it set, parse raises the parameter-limit error exactly
\* when the input has more than parameter_limit tokens.
C8_ParameterLimit ==
  pc = "done" =>
    IF popts.throw_on_limit_exceeded
    THEN (pret.err = "ParameterLimitExceeded")
           <=> (Len(TokensOf(query)) > popts.parameter_limit)
    ELSE SameOutcome(pret, parse(FirstTokens(query, popts.parameter_limit), popts))

\* x holds a list of more than n elements, at any nesting depth.
RECURSIVE HasListLongerThan(_, _)
HasListLongerThan(x, n) ==
  \/ IsList(x) /\ (Len(x.v) > n \/ \E i \in 1..Len(x.v) : HasListLongerThan(x.v[i], n))
  \/ IsDict(x) /\ \E i \in 1..Len(x.v) : HasListLongerThan(x.v[i].x, n)

\* C9: every list of a value parse returns has at most array_limit + 1
\* elements, and parse raises the array-limit error only with
\* throw_on_limit_exceeded set and only when the value it would return
\* without it holds a list of more than array_limit elements.
C9_ArrayLimit ==
  pc = "done" =>
    /\ pret.err = "none" => ~HasListLongerThan(pret.v, popts.array_limit + 1)
    /\ pret.err = "ArrayLimitExceeded" =>
         /\ popts.throw_on_limit_exceeded
         /\ LET quiet == parse(query, [popts EXCEPT !.throw_on_limit_exceeded = FALSE])
            IN quiet.err = "none" /\ HasListLongerThan(quiet.v, popts.array_limit)

(***************************************************************************)
(* SpecStringify: stringify, then parse of the string it returns, on every *)
(* heap of at most MaxNodes containers with at most MaxElems elements each *)
(* (strings or references to containers, cycles included), under each      *)
(* array_format.                                                           *)
(***************************************************************************)
MaxNodes == 2
MaxElems == 2
Names == {S(<<"a">>), S(<<"b">>)}
Slots(n) == {Str(s) : s \in Names} \cup {Ref(i) : i \in 1..n}
Lists(n) == {List(xs) : xs \in UNION {[1..m -> Slots(n)] : m \in 0..MaxElems}}
KeySeqs ==
  {ks \in UNION {[1..m -> Names] : m \in 0..MaxElems} :
     \A i, j \in 1..Len(ks) : ks[i] = ks[j] => i = j}
Dicts(n) ==
  UNION {{Dict([i \in 1..Len(ks) |-> [k |-> ks[i], x |-> xs[i]]]) :
            xs \in [1..Len(ks) -> Slots(n)]} : ks \in KeySeqs}
Heaps == UNION {[1..n -> Lists(n) \cup Dicts(n)] : n \in 1..MaxNodes}
ArrayFormats == {"indices", "brackets", "repeat", "comma"}
FormatOnly == {[StringifyDefaults EXCEPT !.array_format = f] : f \in ArrayFormats}

InitStringify == StringifyCaller(Heaps, FormatOnly)

SpecStringify == InitStringify /\ [][NextStringify]_vars

\* The containers a container holds, and the ones reachable from a set.
Children(h, i) ==
  {j \in 1..Len(h) :
     \E e \in 1..Len(h[i].v) :
       IF IsList(h[i]) THEN h[i].v[e] = Ref(j) ELSE h[i].v[e].x = Ref(j)}

RECURSIVE ReachableFrom(_, _)
ReachableFrom(h, set) ==
  LET more == set \cup UNION {Children(h, i) : i \in set}
  IN IF more = set THEN set ELSE ReachableFrom(h, more)

\* Some container of the value heap[1] is one of its own ancestors.
HasCycle(h) ==
  \E i \in ReachableFrom(h, {1}) : i \in ReachableFrom(h, Children(h, i))

\* C5: when some container of the value is reachable from itself, stringify
\* raises the cyclic-value error and returns no string, under every
\* array_format.
C5_CycleDetected == (pc # "stringify" /\ HasCycle(heap)) => sret.err = "CyclicValue"

\* The value x of an acyclic heap equals the value y (Python ==).
RECURSIVE SameValue(_, _, _)
SameValue(h, x, y) ==
  IF x.t = "ref" THEN SameValue(h, h[x.v[1]], y)
  ELSE /\ x.t = y.t
       /\ CASE x.t = "list" ->
                 /\ Len(x.v) = Len(y.v)
                 /\ \A i \in 1..Len(x.v) : SameValue(h, x.v[i], y.v[i])
            [] x.t = "dict" ->
                 /\ Len(x.v) = Len(y.v)
                 /\ \A i \in 1..Len(x.v) :
                      DHas(y, x.v[i].k) /\ SameValue(h, x.v[i].x, DGet(y, x.v[i].k))
            [] OTHER -> x.v = y.v

\* No container of the value but the root is empty (an empty container
\* leaves no token in the query string).
NoEmptyContainer(h) == \A i \in ReachableFrom(h, {1}) \ {1} : h[i].v # <<>>

\* C1: under default options, for an acyclic mapping v of strings, nested
\* mappings and non-empty sequences, parse(stringify(v)) equals v; a
\* sequence comes back as a sequence.
C1_RoundTrip ==
  (/\ pc = "done" /\ sopts = StringifyDefaults
   /\ IsDict(heap[1]) /\ ~HasCycle(heap) /\ NoEmptyContainer(heap))
    => /\ sret.err = "none"
       /\ pret.err = "none"
       /\ SameValue(heap, Ref(1), pret.v)

(***************************************************************************)
(* SpecFormat: stringify on a mapping that holds one sequence of strings,  *)
(* directly or one mapping deeper, under every array_format, with and      *)
(* without percent-encoding.                                               *)
(***************************************************************************)
MaxItems == 2
Foo == S(<<"f", "o", "o">>)
Bar == S(<<"b", "a", "r">>)
ItemLists == {List(xs) : xs \in UNION {[1..m -> {Str(s) : s \in Names}] : m \in 0..MaxItems}}
FormatHeaps ==
  {<<Dict(<<[k |-> Foo, x |-> Ref(2)]>>), l>> : l \in ItemLists}
    \cup {<<Dict(<<[k |-> Foo, x |-> Ref(2)]>>), Dict(<<[k |-> Bar, x |-> Ref(3)]>>), l>> :
            l \in ItemLists}
FormatOptions ==
  {[StringifyDefaults EXCEPT !.array_format = f, !.encode = e, !.encode_values_only = o] :
     f \in ArrayFormats, e \in BOOLEAN, o \in BOOLEAN}

InitFormat == StringifyCaller(FormatHeaps, FormatOptions)

SpecFormat == InitFormat /\ [][NextStringify]_vars

\* The prefix of the sequence of a heap of FormatHeaps, and its elements.
PrefixOf(h) == IF Len(h) = 2 THEN Foo ELSE Foo \o <<LBRACK>> \o Bar \o <<RBRACK>>
ElementsOf(h) == [i \in 1..Len(h[Len(h)].v) |-> h[Len(h)].v[i].v]

\* The text of a key, or of the joined elements of 'comma', once written:
\* brackets and commas are percent-encoded when encode is set and
\* encode_values_only is not.
Written(text, o) ==
  IF o.encode /\ ~o.encode_values_only
  THEN Replace(Replace(Replace(text, <<LBRACK>>, S(<<"%", "5", "B">>)),
                       <<RBRACK>>, S(<<"%", "5", "D">>)),
               <<COMMA>>, S(<<"%", "2", "C">>))
  ELSE text

\* The key of element i (from 0) under prefix p.
ElementKey(array_format, p, i) ==
  CASE array_format = "indices" -> p \o <<LBRACK>> \o IntToStr(i) \o <<RBRACK>>
    [] array_format = "brackets" -> p \o <<LBRACK, RBRACK>>
    [] array_format = "repeat" -> p

\* The query string of a heap of FormatHeaps under options o.
Emitted(h, o) ==
  IF o.array_format = "comma"
  THEN Written(PrefixOf(h), o) \o <<EQUALS>> \o Written(Join(ElementsOf(h), <<COMMA>>), o)
  ELSE Join([i \in 1..Len(ElementsOf(h)) |->
               Written(ElementKey(o.array_format, PrefixOf(h), i - 1), o)
                 \o <<EQUALS>> \o ElementsOf(h)[i]],
            <<AMP>>)

\* C4 (amended): each element of a sequence under prefix p is emitted in
\* index order under key p[i] ('indices'), p[] ('brackets') or p
\* ('repeat'), and 'comma' emits one token p=e1,e2,...; the brackets of the
\* keys and the commas are written as they are when encode is unset or
\* encode_values_only is set, and percent-encoded (%5B, %5D, %2C) otherwise,
\* the default included.
C4_ArrayFormats ==
  pc # "stringify" => (sret.err = "none" /\ sret.v = Emitted(heap, sopts))

C4_Witness ==
  /\ pc = "done"
  /\ heap = <<Dict(<<[k |-> Foo, x |-> Ref(2)]>>), List(<<Str(S(<<"a">>)), Str(S(<<"b">>))>>)>>
  /\ sopts.array_format = "comma" /\ ~sopts.encode
  /\ sret.v = S(<<"f", "o", "o", "=", "a", ",", "b">>)

\* C4 as stated: with no option other than array_format the brackets and
\* the commas are emitted as they are.
C4_AsStated ==
  (pc # "stringify" /\ sopts = [StringifyDefaults EXCEPT !.array_format = sopts.array_format])
    => (sret.err = "none" /\ sret.v = Emitted(heap, [sopts EXCEPT !.encode = FALSE]))


(***************************************************************************)
(* SpecReserved: parse on 1 to MaxKeys tokens, some of which name a member *)
(* of a built-in mapping as leading name or in a bracket group, with and   *)
(* without allow_prototypes and plain_objects, under depth 5 and 1.        *)
(***************************************************************************)
MaxKeys == 3
Get == S(<<"g", "e", "t">>)
Keys == S(<<"k", "e", "y", "s">>)

\* Each token with the number of bracket groups that parse_keys has to
\* consume to meet a member name (met: -1 when the token holds none), and
\* with the path of its value.
ReservedTokens ==
  {[text |-> S(<<"g", "e", "t", "=", "1">>), met |-> 0, path |-> <<Get>>],
   [text |-> S(<<"a", "[", "g", "e", "t", "]", "=", "2">>), met |-> 1,
    path |-> <<S(<<"a">>), Get>>],
   [text |-> S(<<"a", "[", "b", "]", "[", "k", "e", "y", "s", "]", "=", "3">>), met |-> 2,
    path |-> <<S(<<"a">>), S(<<"b">>), Keys>>],
   [text |-> S(<<"k", "e", "y", "s", "[", "a", "]", "=", "1">>), met |-> 0,
    path |-> <<Keys, S(<<"a">>)>>],
   [text |-> S(<<"a", "[", "c", "]", "=", "1">>), met |-> -1,
    path |-> <<S(<<"a">>), S(<<"c">>)>>],
   [text |-> S(<<"b", "=", "1">>), met |-> -1, path |-> <<S(<<"b">>)>>]}

ReservedOptions ==
  {[ParseDefaults EXCEPT !.allow_prototypes = p, !.plain_objects = o, !.depth = d] :
     p \in BOOLEAN, o \in BOOLEAN, d \in {1, 5}}

InitReserved ==
  ParseCaller(QueriesOf({t.text : t \in ReservedTokens}, MaxKeys), ReservedOptions)

SpecReserved == InitReserved /\ [][Next]_vars

\* The token of ReservedTokens with this text.
TokenOf(text) == CHOOSE t \in ReservedTokens : t.text = text

\* The token meets a member name among its leading name and the bracket
\* groups that depth lets parse_keys consume.
MeetsMember(t, depth) == t.met >= 0 /\ t.met <= depth

\* The query without the tokens that meet a member name.
WithoutMembers(string, depth) ==
  Join(SelectSeq(TokensOf(string), LAMBDA text : ~MeetsMember(TokenOf(text), depth)),
       <<AMP>>)

\* C11: when neither allow_prototypes nor plain_objects is set, a key whose
\* leading name or a consumed bracket segment is a member name of a
\* built-in mapping is dropped without raising, and the result is the one
\* of the input without that key; with allow_prototypes set the value of
\* the key is in the result.
C11_ReservedNames ==
  pc = "done" =>
    /\ pret.err = "none"
    /\ (~popts.allow_prototypes /\ ~popts.plain_objects)
         => SameOutcome(pret, parse(WithoutMembers(query, popts.depth), popts))
    /\ popts.allow_prototypes
         => \A i \in 1..Len(TokensOf(query)) :
              At(pret.v, TokenOf(TokensOf(query)[i]).path) # Missing

C11_Witness ==
  /\ pc = "done"
  /\ ~popts.allow_prototypes /\ ~popts.plain_objects /\ popts.depth = 5
  /\ query = S(<<"a", "[", "c", "]", "=", "1", "&", "g", "e", "t", "=", "1", "&",
                 "a", "[", "g", "e", "t", "]", "=", "2">>)
  /\ PyEq(pret.v, Dict(<<[k |-> S(<<"a">>),
                          x |-> Dict(<<[k |-> S(<<"c">>), x |-> Str(S(<<"1">>))]>>)]>>))


(***************************************************************************)
(* SpecDots: parse on one token a<s1>...<sn>=v whose segments are '.b',    *)
(* '.c', '[b]', '[c]' or '[b.c]', with and without allow_dots.             *)
(***************************************************************************)
MaxSegments == 3
DotSegments ==
  {[text |-> S(<<".", "b">>), name |-> S(<<"b">>), dot |-> TRUE],
   [text |-> S(<<".", "c">>), name |-> S(<<"c">>), dot |-> TRUE],
   [text |-> S(<<"[", "b", "]">>), name |-> S(<<"b">>), dot |-> FALSE],
   [text |-> S(<<"[", "c", "]">>), name |-> S(<<"c">>), dot |-> FALSE],
   [text |-> S(<<"[", "b", ".", "c", "]">>), name |-> S(<<"b", ".", "c">>), dot |-> FALSE]}
DotKeys == UNION {[1..n -> DotSegments] : n \in 0..MaxSegments}

\* The token of a sequence of segments.
DotQuery(segs) ==
  Leading \o Concat([i \in 1..Len(segs) |-> segs[i].text]) \o <<EQUALS>> \o Payload

InitDots ==
  ParseCaller({DotQuery(segs) : segs \in DotKeys},
              {[ParseDefaults EXCEPT !.allow_dots = d] : d \in BOOLEAN})

SpecDots == InitDots /\ [][Next]_vars

\* The segments a query of SpecDots was made of.
SegmentsOf(string) == CHOOSE segs \in DotKeys : DotQuery(segs) = string

\* The mapping that holds x under the nested path of names.
RECURSIVE Nested(_, _)
Nested(path, x) ==
  IF path = <<>> THEN x ELSE Dict(<<[k |-> path[1], x |-> Nested(Tail(path), x)]>>)

\* The number of '.segment's that directly follow the leading name.
RECURSIVE LeadingDots(_)
LeadingDots(segs) ==
  IF segs = <<>> \/ ~segs[1].dot THEN 0 ELSE 1 + LeadingDots(Tail(segs))

\* The path of names the segments stand for: with allow_dots one name per
\* segment, the content of a bracket group being one name whatever it
\* holds; without it the dots after the leading name are part of that
\* name.
DotPath(segs, allow_dots) ==
  IF allow_dots THEN <<Leading>> \o [i \in 1..Len(segs) |-> segs[i].name]
  ELSE <<Leading \o Concat([i \in 1..LeadingDots(segs) |-> segs[i].text])>>
         \o [i \in 1..(Len(segs) - LeadingDots(segs)) |-> segs[LeadingDots(segs) + i].name]

\* C12: with allow_dots every '.segment' outside brackets is a nested path
\* segment ('a.b=c' gives what 'a[b]=c' gives) and a dot inside a bracket
\* group is not rewritten ('a[b.c]=d' gives the segment 'b.c' under 'a');
\* without allow_dots 'a.b' is one flat key.
C12_DotNotation ==
  (/\ pc = "done"
   /\ popts.allow_dots \/ \A i \in 1..Len(SegmentsOf(query)) :
                            SegmentsOf(query)[i].dot => i <= LeadingDots(SegmentsOf(query)))
    => /\ pret.err = "none"
       /\ PyEq(pret.v, Nested(DotPath(SegmentsOf(query), popts.allow_dots), Str(Payload)))


(***************************************************************************)
(* SpecCallers: stringify, then parse, on a mapping of strings, with the   *)
(* caller's filter key list (heap[2], at most MaxFilter keys) given or     *)
(* not, and a sort function given or not.                                  *)
(***************************************************************************)
MaxFilter == 2
FilterLists == {List(ks) : ks \in UNION {[1..m -> {Str(s) : s \in Names}] : m \in 0..MaxFilter}}
CallerHeaps == {<<d, l>> : d \in Dicts(0), l \in FilterLists}
CallerOptions ==
  {[StringifyDefaults EXCEPT !.filter = f, !.sort = s] :
     f \in {None, Ref(2)}, s \in {"None", "lambda k: k"}}

InitCallers == StringifyCaller(CallerHeaps, CallerOptions)

SpecCallers == InitCallers /\ [][NextStringify]_vars

\* C13: a call of stringify or parse writes nothing that outlives it: the
\* caller's value and filter key list (heap) and the option records the
\* callers hold are after every call what they were before it.
C13_CallLocal == [][heap' = heap /\ sopts' = sopts /\ popts' = popts]_vars


(***************************************************************************)
(* SpecSentinel: parse on 1 to MaxSentinel tokens among the two charset    *)
(* sentinels, 'a=%C3%A9' (e acute in UTF-8), 'b=%E9' (e acute in           *)
(* ISO-8859-1) and 'utf8=x', with and without charset_sentinel, under both *)
(* charsets.                                                               *)
(***************************************************************************)
MaxSentinel == 3
Utf8Key == S(<<"u", "t", "f", "8">>)
SentinelTokens ==
  {[text |-> CHARSET_SENTINEL, key |-> Utf8Key, raw |-> <<>>, names |-> "utf-8"],
   [text |-> ISO_SENTINEL, key |-> Utf8Key, raw |-> <<>>, names |-> "iso-8859-1"],
   [text |-> S(<<"a", "=", "%", "C", "3", "%", "A", "9">>), key |-> S(<<"a">>),
    raw |-> S(<<"%", "C", "3", "%", "A", "9">>), names |-> "none"],
   [text |-> S(<<"b", "=", "%", "E", "9">>), key |-> S(<<"b">>),
    raw |-> S(<<"%", "E", "9">>), names |-> "none"],
   [text |-> S(<<"u", "t", "f", "8", "=", "x">>), key |-> Utf8Key,
    raw |-> S(<<"x">>), names |-> "none"]}

SentinelOptions ==
  {[ParseDefaults EXCEPT !.charset_sentinel = s, !.charset = c] :
     s \in BOOLEAN, c \in {"utf-8", "iso-8859-1"}}

InitSentinel ==
  ParseCaller(QueriesOf({t.text : t \in SentinelTokens}, MaxSentinel), SentinelOptions)

SpecSentinel == InitSentinel /\ [][Next]_vars

\* The tokens of a query of SpecSentinel, as records of SentinelTokens.
SentinelParts(string) ==
  [i \in 1..Len(TokensOf(string)) |->
     CHOOSE t \in SentinelTokens : t.text = TokensOf(string)[i]]

\* The percent-decoding of a token under a charset: the bytes of the
\* escapes read as UTF-8, or each byte as the code point of that number.
DecodedUnder(raw, charset) ==
  IF charset = "utf-8" THEN Utf8Decode(UnquoteToBytes(raw))
  ELSE [i \in 1..Len(UnquoteToBytes(raw)) |->
          IF UnquoteToBytes(raw)[i] < 0 THEN -UnquoteToBytes(raw)[i]
          ELSE UnquoteToBytes(raw)[i]]

\* What key maps to when the tokens other than the sentinels are decoded
\* under charset: Missing, the value, or the list of the values.
UnderCharset(parts, key, charset) ==
  LET mine == SelectSeq(parts, LAMBDA t : t.key = key /\ t.names = "none")
      values == [i \in 1..Len(mine) |-> Str(DecodedUnder(mine[i].raw, charset))]
  IN IF Len(mine) = 0 THEN Missing
     ELSE IF Len(mine) = 1 THEN values[1]
     ELSE List(values)

\* C14: with charset_sentinel set and a sentinel token in the input, every
\* other token, before or after it, is decoded under the charset the
\* (first) sentinel names whatever the charset option is, and no sentinel
\* token is a key of the result; with charset_sentinel unset a sentinel
\* token is parsed as an ordinary 'utf8' key.
C14_CharsetSentinel ==
  (pc = "done" /\ \E i \in 1..Len(SentinelParts(query)) : SentinelParts(query)[i].names # "none")
    => LET parts == SentinelParts(query)
           first == CHOOSE i \in 1..Len(parts) :
                      /\ parts[i].names # "none"
                      /\ \A j \in 1..(i - 1) : parts[j].names = "none"
       IN /\ pret.err = "none"
          /\ IF popts.charset_sentinel
             THEN \A key \in {t.key : t \in SentinelTokens} :
                    LET want == UnderCharset(parts, key, parts[first].names)
                    IN IF want = Missing THEN At(pret.v, <<key>>) = Missing
                       ELSE PyEq(At(pret.v, <<key>>), want)
             ELSE At(pret.v, <<Utf8Key>>) # Missing


(***************************************************************************)
(* SpecCompact: utils.compact, twice in a row, on every tree of two levels *)
(* of containers of at most MaxWidth elements over the leaves None and     *)
(* 'a'.                                                                    *)
(***************************************************************************)
MaxWidth == 2
Leaves == {None, Str(S(<<"a">>))}

\* The leaves, and the lists and dicts of at most MaxWidth values of sub.
TreesOver(sub) ==
  Leaves
    \cup {List(xs) : xs \in UNION {[1..m -> sub] : m \in 0..MaxWidth}}
    \cup UNION {{Dict([i \in 1..Len(ks) |-> [k |-> ks[i], x |-> xs[i]]]) :
                   xs \in [1..Len(ks) -> sub]} :
                ks \in {qs \in UNION {[1..m -> Names] : m \in 0..MaxWidth} :
                          \A i, j \in 1..Len(qs) : qs[i] = qs[j] => i = j}}

InitCompact == CompactCaller(TreesOver(TreesOver(Leaves)))

SpecCompact == InitCompact /\ [][NextCompact]_vars

\* x is None or holds a None at some depth.
RECURSIVE HasNone(_)
HasNone(x) ==
  \/ IsNone(x)
  \/ IsList(x) /\ \E i \in 1..Len(x.v) : HasNone(x.v[i])
  \/ IsDict(x) /\ \E i \in 1..Len(x.v) : HasNone(x.v[i].x)

\* C15: compact of a compacted tree is that tree (the second call changes
\* nothing), and compact of a tree that holds no None is that tree.
C15_CompactIdempotent ==
  [][/\ pc = "compact again" => tree' = tree
     /\ (pc = "compact" /\ ~HasNone(tree)) => tree' = tree]_vars

C15_Witness ==
  /\ pc = "done"
  /\ tree = Dict(<<[k |-> S(<<"b">>), x |-> List(<<None, Str(S(<<"a">>))>>)]>>)


(***************************************************************************)
(* SpecIndex: parse on 1 to MaxIndexed tokens whose key is a name followed *)
(* by one bracketed segment 0, 1, 2 or 01, or a bare 0 or 1, with and      *)
(* without parse_arrays and allow_sparse, under array_limit 1 and 20.      *)
(***************************************************************************)
MaxIndexed == 2
IndexSegments == {S(<<"0">>), S(<<"1">>), S(<<"2">>), S(<<"0", "1">>)}

\* Each token with its leading name, its segment and whether the segment
\* is in brackets; a bare segment is its own leading name.
IndexTokens ==
  {[text |-> n \o Bracketed(<<g>>) \o <<EQUALS>> \o S(<<"x">>), name |-> n, seg |-> g,
    bracketed |-> TRUE] : n \in {S(<<"a">>), S(<<"b">>)}, g \in IndexSegments}
    \cup {[text |-> g \o <<EQUALS>> \o S(<<"x">>), name |-> g, seg |-> g,
           bracketed |-> FALSE] : g \in {S(<<"0">>), S(<<"1">>)}}

IndexOptions ==
  {[ParseDefaults EXCEPT !.parse_arrays = p, !.allow_sparse = s, !.array_limit = l] :
     p \in BOOLEAN, s \in BOOLEAN, l \in {1, 20}}

InitIndex ==
  ParseCaller(QueriesOf({t.text : t \in IndexTokens}, MaxIndexed), IndexOptions)

SpecIndex == InitIndex /\ [][Next]_vars

\* The token of IndexTokens with this text.
IndexTokenOf(text) == CHOOSE t \in IndexTokens : t.text = text

\* The tokens of the query whose leading name no other token of it has.
AloneIn(string) ==
  LET ts == [i \in 1..Len(TokensOf(string)) |-> IndexTokenOf(TokensOf(string)[i])]
  IN {ts[i] : i \in {i \in 1..Len(ts) : \A j \in 1..Len(ts) : ts[j].name = ts[i].name => j = i}}

\* x is a list that holds leaf at position i, after holes only; once
\* compacted, a list that holds leaf.
HoldsAt(x, i, leaf, sparse) ==
  /\ IsList(x)
  /\ \E j \in 1..Len(x.v) : PyEq(x.v[j], leaf)
  /\ sparse => /\ Len(x.v) = i + 1
               /\ PyEq(x.v[i + 1], leaf)
               /\ \A j \in 1..i : IsNone(x.v[j])

\* C16: with parse_arrays enabled, a bracketed segment that is a canonical
\* non-negative integer i <= array_limit makes the parent a list that holds
\* the leaf at position i; a bare numeric leading name, a non-canonical
\* segment and an index above array_limit make a dict entry keyed by that
\* text.
C16_NumericIndex ==
  (pc = "done" /\ popts.parse_arrays) =>
    /\ pret.err = "none"
    /\ \A t \in AloneIn(query) :
         IF t.bracketed /\ IsCanonicalIndex(t.seg) /\ DigitsValue(t.seg) <= popts.array_limit
         THEN HoldsAt(At(pret.v, <<t.name>>), DigitsValue(t.seg), Str(S(<<"x">>)),
                      popts.allow_sparse)
         ELSE PyEq(At(pret.v, IF t.bracketed THEN <<t.name, t.seg>> ELSE <<t.seg>>),
                   Str(S(<<"x">>)))


\* The bracket groups of the key of a query of DepthQueries.
GroupsOf(string) ==
  CHOOSE gs \in UNION {[1..n -> DepthGroups] : n \in 0..MaxGroups} :
    string = Leading \o Bracketed(gs) \o <<EQUALS>> \o Payload

\* C17: when the key has more bracket groups than a positive depth and
\* strict_depth is unset, the value is stored, under the names of the
\* consumed groups, under one dict key whose text is the remaining groups
\* with their brackets; also when one single group remains.
C17_OverflowLiteral ==
  LET gs == GroupsOf(query)
      d == popts.depth
  IN (/\ pc = "done"
      /\ ~popts.strict_depth
      /\ d > 0 /\ Len(gs) > d
      /\ \A i \in 1..d : gs[i] \in {S(<<"b">>), S(<<"c">>)})
       => /\ pret.err = "none"
          /\ PyEq(At(pret.v, <<Leading>> \o SubSeq(gs, 1, d)
                               \o <<Bracketed(SubSeq(gs, d + 1, Len(gs)))>>),
                  Str(Payload))


(***************************************************************************)
(* SpecMixed: parse on 1 to MaxMixed tokens that address the path a, or a  *)
(* path under it, through different raw keys, under each duplicates        *)
(* policy.  Every token has a value of its own.                            *)
(***************************************************************************)
MaxMixed == 2

\* Each token with its value.
MixedTokens ==
  {[text |-> S(<<"a", "=", "1">>), value |-> S(<<"1">>)],
   [text |-> S(<<"a", "[", "]", "=", "2">>), value |-> S(<<"2">>)],
   [text |-> S(<<"a", "[", "b", "]", "=", "3">>), value |-> S(<<"3">>)],
   [text |-> S(<<"a", "[", "b", "]", "[", "c", "]", "=", "4">>), value |-> S(<<"4">>)]}

InitMixed == ParseCaller(QueriesOf({t.text : t \in MixedTokens}, MaxMixed), Policies)

SpecMixed == InitMixed /\ [][Next]_vars

\* x is leaf or holds it at some depth.
RECURSIVE Holds(_, _)
Holds(x, leaf) ==
  \/ PyEq(x, leaf)
  \/ IsList(x) /\ \E i \in 1..Len(x.v) : Holds(x.v[i], leaf)
  \/ IsDict(x) /\ \E i \in 1..Len(x.v) : Holds(x.v[i].x, leaf)

\* C18: under duplicates 'combine' parse returns, and the value of every
\* token of the input is in the result, whatever raw keys address a path.
C18_NoLossUnderCombine ==
  (pc = "done" /\ popts.duplicates = "combine") =>
    /\ pret.err = "none"
    /\ \A t \in MixedTokens :
         t.text \in {TokensOf(query)[i] : i \in 1..Len(TokensOf(query))}
           => Holds(pret.v, Str(t.value))


(***************************************************************************)
(* SpecMerge: utils.merge on every pair of a target and a source that are  *)
(* a leaf, or a list or dict of at most MaxWidth values, each of them a    *)
(* leaf or a list or dict of at most one element.  The values of the       *)
(* containers are themselves targets and sources of the set.               *)
(***************************************************************************)
MergeInner ==
  Leaves \cup {List(<<>>), List(<<Str(S(<<"a">>))>>),
               Dict(<<[k |-> S(<<"a">>), x |-> Str(S(<<"a">>))]>>),
               Dict(<<[k |-> S(<<"b">>), x |-> Str(S(<<"a">>))]>>)}

InitMerge == MergeCaller(TreesOver(MergeInner), TreesOver(MergeInner))

SpecMerge == InitMerge /\ [][NextMerge]_vars

\* The value the merge rules give key k of the union of the dicts t and s.
UnionValue(t, s, k) ==
  IF DHas(t, k) /\ DHas(s, k)
  THEN IF \/ IsDict(DGet(t, k)) /\ IsDict(DGet(s, k))
          \/ IsList(DGet(t, k)) /\ IsList(DGet(s, k))
       THEN merge(DGet(t, k), DGet(s, k), ParseDefaults)
       ELSE DGet(s, k)
  ELSE IF DHas(s, k) THEN DGet(s, k) ELSE DGet(t, k)

\* r is what the merge rules give for target t and source s, a container
\* or None.
MergeRules(t, s, r) ==
  /\ IsNone(s) => PyEq(r, t)
  /\ (IsList(t) /\ IsList(s)) => PyEq(r, List(t.v \o s.v))
  /\ (IsDict(t) /\ IsDict(s)) =>
       /\ IsDict(r)
       /\ {r.v[i].k : i \in 1..Len(r.v)}
            = {t.v[i].k : i \in 1..Len(t.v)} \cup {s.v[i].k : i \in 1..Len(s.v)}
       /\ \A i \in 1..Len(r.v) : PyEq(r.v[i].x, UnionValue(t, s, r.v[i].k))
  /\ ((IsDict(s) \/ IsList(s)) /\ (Falsy(t) \/ t.t # s.t)) => PyEq(r, s)

\* C19: for a source that is None, a list or a dict, merge returns what
\* the merge rules give (the target for None, the concatenation of two
\* lists, the key-wise union of two dicts, the source for an empty target
\* or one of another shape), and changes neither the target nor the source.
C19_MergeRules ==
  [][(pc = "merge" /\ (IsNone(source) \/ IsList(source) \/ IsDict(source))) =>
       /\ uret'.err = "none"
       /\ MergeRules(tree, source, uret'.v)
       /\ tree' = tree
       /\ source' = source]_vars

C19_Witness ==
  /\ pc = "done"
  /\ tree = Dict(<<[k |-> S(<<"a">>), x |-> List(<<Str(S(<<"a">>))>>)],
                   [k |-> S(<<"b">>), x |-> Str(S(<<"a">>))]>>)
  /\ source = Dict(<<[k |-> S(<<"b">>), x |-> None],
                     [k |-> S(<<"a">>), x |-> List(<<Str(S(<<"a">>))>>)]>>)
  /\ uret = Ok(Dict(<<[k |-> S(<<"a">>), x |-> List(<<Str(S(<<"a">>)), Str(S(<<"a">>))>>)],
                      [k |-> S(<<"b">>), x |-> None]>>))


(***************************************************************************)
(* SpecShared: stringify on a root list of at most MaxFanout elements over *)
(* two further containers, each a list or a dict of at most one element.   *)
(* An element is 'a' or one of the three containers, so that a container   *)
(* can be shared by siblings, equal to another one, or its own ancestor.   *)
(***************************************************************************)
MaxFanout == 2
SharedSlots == {Str(S(<<"a">>)), Ref(1), Ref(2), Ref(3)}

SharedHeaps ==
  {<<r, c, d>> :
     r \in {List(xs) : xs \in UNION {[1..m -> SharedSlots] : m \in 0..MaxFanout}},
     c \in {List(<<>>), Dict(<<>>)}
             \cup {List(<<x>>) : x \in SharedSlots}
             \cup {Dict(<<[k |-> S(<<"a">>), x |-> x]>>) : x \in SharedSlots},
     d \in {List(<<>>), Dict(<<>>)}
             \cup {List(<<x>>) : x \in SharedSlots}
             \cup {Dict(<<[k |-> S(<<"a">>), x |-> x]>>) : x \in SharedSlots}}

InitShared == StringifyCaller(SharedHeaps, FormatOnly)

SpecShared == InitShared /\ [][NextStringify]_vars

\* The number of times a str is met on the way down from container i of an
\* acyclic heap: a container counts once for every reference to it.
RECURSIVE Occurrences(_, _)
Occurrences(h, i) ==
  LET Slot(e) == IF IsList(h[i]) THEN h[i].v[e] ELSE h[i].v[e].x
      RECURSIVE Sum(_)
      Sum(e) == IF e > Len(h[i].v) THEN 0
                ELSE (IF Slot(e).t = "ref" THEN Occurrences(h, Slot(e).v[1]) ELSE 1)
                       + Sum(e + 1)
  IN Sum(1)

\* C20: stringify raises the cyclic-value error only when a container of
\* the value is its own ancestor; a value without such a container, shared
\* or equal containers included, is serialised without error, with one
\* token for each occurrence of a str (when lists are not joined by commas).
C20_NoFalseCycle ==
  pc # "stringify" =>
    /\ sret.err = "CyclicValue" => HasCycle(heap)
    /\ ~HasCycle(heap) =>
         /\ sret.err = "none"
         /\ sopts.array_format # "comma"
              => Len(SelectSeq(sret.v, LAMBDA c : c = EQUALS)) = Occurrences(heap, 1)

C20_Witness ==
  /\ pc = "done"
  /\ heap = <<List(<<Ref(2), Ref(2)>>), List(<<Ref(3)>>), List(<<Str(S(<<"a">>))>>)>>
  /\ sret.err = "none"


(***************************************************************************)
(* SpecFilter: stringify, then parse, on a mapping (heap[1]) whose values  *)
(* are strs or the nested mapping heap[3], with a filter list of 1 to      *)
(* MaxListed keys (heap[2]), with and without encoding.                    *)
(***************************************************************************)
MaxListed == 2

FilterHeaps ==
  {<<d, List(ks), n>> :
     d \in UNION {{Dict([i \in 1..Len(ks) |-> [k |-> ks[i], x |-> xs[i]]]) :
                     xs \in [1..Len(ks) -> {Str(S(<<"a">>)), Ref(3)}]} : ks \in KeySeqs},
     ks \in UNION {[1..m -> {Str(s) : s \in Names}] : m \in 1..MaxListed},
     n \in Dicts(0)}

FilterOptions == {[StringifyDefaults EXCEPT !.filter = Ref(2), !.encode = e] : e \in BOOLEAN}

InitFilter == StringifyCaller(FilterHeaps, FilterOptions)

SpecFilter == InitFilter /\ [][NextStringify]_vars

\* The tokens of the dict h[i] under prefix for the keys of the list, in
\* list order: none for a key the dict has not, the tokens of the nested
\* dict for a key that holds one.
RECURSIVE Listed(_, _, _, _)
Listed(h, i, keys, prefix) ==
  LET RECURSIVE From(_)
      From(j) ==
        IF j > Len(keys) THEN <<>>
        ELSE LET k == keys[j]
                 p == IF prefix = <<>> THEN k ELSE prefix \o <<LBRACK>> \o k \o <<RBRACK>>
             IN (IF ~DHas(h[i], k) THEN <<>>
                 ELSE IF DGet(h[i], k).t = "ref"
                 THEN Listed(h, DGet(h[i], k).v[1], keys, p)
                 ELSE <<p \o <<EQUALS>> \o DGet(h[i], k).v>>)
                  \o From(j + 1)
  IN From(1)

\* The string with its escaped brackets written as brackets.
Unescaped(string) ==
  Replace(Replace(string, S(<<"%", "5", "B">>), <<LBRACK>>), S(<<"%", "5", "D">>), <<RBRACK>>)

\* C21: with a filter list, stringify raises nothing and returns the tokens
\* of the listed keys only, in list order; a listed key that a mapping has
\* not, at the root or nested, gives no token, and the nested mapping of a
\* listed key is serialised.
C21_FilterAllowList ==
  pc # "stringify" =>
    /\ sret.err = "none"
    /\ Unescaped(sret.v) = Join(Listed(heap, 1, FilterKeys(heap, sopts), <<>>), <<AMP>>)


(***************************************************************************)
(* SpecMarker: parse on 1 to MaxMarked tokens whose key ends in '[]', with *)
(* no value, an empty one, 'x' or 'x,y', with and without                  *)
(* allow_empty_arrays and comma; and stringify, then parse, both with      *)
(* allow_empty_arrays, on mappings that hold an empty sequence.            *)
(***************************************************************************)
MaxMarked == 2

\* Each token with its leading name and its value: the text after the
\* '=', empty for a token without one.
MarkerTokens ==
  {[text |-> n \o ARRAY_MARKER \o f, name |-> n,
    value |-> IF f = <<>> THEN <<>> ELSE Tail(f)] :
     n \in Names,
     f \in {<<>>, <<EQUALS>>, <<EQUALS>> \o S(<<"x">>), <<EQUALS>> \o S(<<"x", ",", "y">>)}}

MarkerOptions ==
  {[ParseDefaults EXCEPT !.allow_empty_arrays = e, !.comma = c] :
     e \in BOOLEAN, c \in BOOLEAN}

\* {'a': []}, {'a': {'b': []}} and {'a': [], 'b': 'x'}.
EmptyListHeaps ==
  {<<Dict(<<[k |-> S(<<"a">>), x |-> Ref(2)]>>), List(<<>>)>>,
   <<Dict(<<[k |-> S(<<"a">>), x |-> Ref(2)]>>), Dict(<<[k |-> S(<<"b">>), x |-> Ref(3)]>>),
     List(<<>>)>>,
   <<Dict(<<[k |-> S(<<"a">>), x |-> Ref(2)], [k |-> S(<<"b">>), x |-> Str(S(<<"x">>))]>>),
     List(<<>>)>>}

InitMarker ==
  \/ ParseCaller(QueriesOf({t.text : t \in MarkerTokens}, MaxMarked), MarkerOptions)
  \/ /\ pc = "stringify"
     /\ heap \in EmptyListHeaps
     /\ sopts \in {[StringifyDefaults EXCEPT !.allow_empty_arrays = TRUE, !.array_format = f,
                                             !.encode = e] :
                     f \in ArrayFormats, e \in BOOLEAN}
     /\ sret = NotCalled
     /\ query = <<>>
     /\ popts = [ParseDefaults EXCEPT !.allow_empty_arrays = TRUE]
     /\ pret = NotCalled
     /\ tree = None
     /\ source = None
     /\ uret = NotCalled

SpecMarker == InitMarker /\ [][NextStringify]_vars

\* The tokens of the query whose leading name no other token of it has.
MarkedAlone(string) ==
  LET ts == [i \in 1..Len(TokensOf(string)) |->
               CHOOSE t \in MarkerTokens : t.text = TokensOf(string)[i]]
  IN {ts[i] : i \in {i \in 1..Len(ts) : \A j \in 1..Len(ts) : ts[j].name = ts[i].name => j = i}}

\* The sequence an array marker makes of the value of a token.
Marked(t, options) ==
  IF options.allow_empty_arrays /\ t.value = <<>> THEN List(<<>>)
  ELSE IF options.comma /\ Contains(t.value, <<COMMA>>)
  THEN List([i \in 1..Len(Split(t.value, <<COMMA>>, -1)) |->
               Str(Split(t.value, <<COMMA>>, -1)[i])])
  ELSE List(<<Str(t.value)>>)

\* C22: with parse_arrays enabled a key that ends in '[]' makes a list of
\* one element of its value, and splices a value that is a list; with
\* allow_empty_arrays an empty value, of 'a[]' and of 'a[]=' alike, makes
\* the empty list, and a mapping that holds an empty list comes back from
\* stringify and parse under allow_empty_arrays.
C22_ArrayMarker ==
  pc = "done" =>
    IF sret = NotCalled
    THEN /\ pret.err = "none"
         /\ \A t \in MarkedAlone(query) : PyEq(At(pret.v, <<t.name>>), Marked(t, popts))
    ELSE /\ sret.err = "none"
         /\ pret.err = "none"
         /\ SameValue(heap, Ref(1), pret.v)


(***************************************************************************)
(* SpecEncode: utils.encode, then utils.decode, under charset utf-8 and    *)
(* both formats, on every string of 1 to MaxChars code points among        *)
(* unreserved and reserved ASCII characters and the first and last code    *)
(* point of every UTF-8 length (surrogates left out).                      *)
(***************************************************************************)
MaxChars == 2
CodePoints ==
  {Ord("a"), Ord("-"), Ord("("), SPACE, PERCENT, PLUS, 127, 128, 2047, 2048, 55295, 57344,
   65535, 65536, MaxCodePoint}

EncodeOptions == {[StringifyDefaults EXCEPT !.format = f] : f \in {"RFC3986", "RFC1738"}}

InitEncode == EncodeCaller(UNION {[1..n -> CodePoints] : n \in 1..MaxChars}, EncodeOptions)

SpecEncode == InitEncode /\ [][NextEncode]_vars

\* The number of bytes of code point c in UTF-8.
Utf8Length(c) == IF c < 128 THEN 1 ELSE IF c < 2048 THEN 2 ELSE IF c < 65536 THEN 3 ELSE 4

\* What encode owes for code point c: c itself when it needs no escape,
\* the upper-case escapes of its UTF-8 bytes otherwise.
Escaped(c, format) ==
  IF IsUnreserved(c) \/ (format = "RFC1738" /\ c \in {Ord("("), Ord(")")}) THEN <<c>>
  ELSE Concat([i \in 1..Utf8Length(c) |-> HEX_TABLE(Utf8Bytes(c)[i])])

\* C23: under charset utf-8 encode never fails on valid code points and
\* returns, for every character outside [A-Za-z0-9-_.~] (and '(' and ')'
\* under RFC1738), the upper-case %XX escapes of its one to four UTF-8
\* bytes, and decode gives the string back.
C23_Utf8Encoding ==
  /\ pc = "decode" =>
       uret.v.v = Concat([i \in 1..Len(tree.v) |-> Escaped(tree.v[i], sopts.format)])
  /\ pc = "done" => (uret.err = "none" /\ uret.v = tree)


(***************************************************************************)
(* SpecLeaves: stringify on a dict whose one value is a leaf or a second   *)
(* container, a list of at most MaxLeaves elements or a dict of at most    *)
(* one.  A leaf is a str, 0, 1, False, True or None; an element can also   *)
(* be the second container itself.  Both formats, with and without the     *)
(* encoder, under each array format.                                       *)
(***************************************************************************)
MaxLeaves == 2
LeafValues ==
  {Str(<<>>), Str(S(<<"a">>)), Str(S(<<"a">>) \o <<SPACE>>),
   PyInt(0), PyInt(1), False, True, None}
LeafSlots == LeafValues \cup {Ref(2)}

LeafHeaps ==
  {<<Dict(<<[k |-> S(<<"a">>), x |-> x]>>), c>> :
     x \in LeafSlots,
     c \in {List(xs) : xs \in UNION {[1..m -> LeafSlots] : m \in 0..MaxLeaves}}
             \cup {Dict(<<>>)}
             \cup {Dict(<<[k |-> S(<<"b">>), x |-> y]>>) : y \in LeafSlots}}

LeafOptions ==
  {[StringifyDefaults EXCEPT !.format = f, !.encode = e, !.array_format = g] :
     f \in {"RFC3986", "RFC1738"}, e \in BOOLEAN, g \in ArrayFormats}

InitLeaves == StringifyCaller(LeafHeaps, LeafOptions)

SpecLeaves == InitLeaves /\ [][NextStringify]_vars

\* C24: with valid options stringify raises nothing but the cyclic-value
\* error, and on an acyclic mapping whose leaves are strings, integers,
\* booleans or None it returns a string.
C24_FailsOnlyOnCycles ==
  pc # "stringify" =>
    /\ sret.err \in {"none", "CyclicValue"}
    /\ ~HasCycle(heap) => sret.err = "none"
====
